---------------------------- MODULE Spec2Model ----------------------------
(***************************************************************************)
(* Model of the toolbox environment filesystem helper (toolbox-envfs) and  *)
(* of the toolbox supervisor daemon.                                       *)
(*                                                                         *)
(*   Spec     the ENVFS lookup, forget and getattr handlers, one request   *)
(*            handled at a time                                            *)
(*   SpecIO   the ENVFS handlers that work on open files, one request      *)
(*            handled at a time                                            *)
(*   SpecMT   the ENVFS lookup/forget protocol on concurrent worker        *)
(*            threads (fuse_session_loop_mt)                               *)
(*   SpecMain the helper's main(): the set-up, the dispatch loop with the  *)
(*            handlers of Spec, and the exit                               *)
(*   SpecSup  the supervisor: container entries, Start/Stop requests,      *)
(*            podman subprocesses and reconciliation passes                *)
(*   SpecPass the supervisor's reconciliation passes in detail: the        *)
(*            environment root, the ENVFS children, the default link       *)
(*   SpecRetry the reconciliation passes with I/O errors in the            *)
(*            environment root                                             *)
(***************************************************************************)
EXTENDS Integers, Sequences, FiniteSets, TLC

VARIABLES
    heap,       \* inode storage: address -> [alloc, type, path, is_raw, refcount]
    inodes,     \* the GHashTable `inodes`: its nodes, (stored hash, key pointer)
    nlookup,    \* kernel side: lookup count the kernel holds per inode number
    dcache,     \* kernel side: dentries <<parent ino, name, child ino, attr>>
    fds,        \* file descriptors opened by envfs_open and not yet released,
                \* and the ones envfs_inode_get_fd opened and nothing closed
    dirh,       \* the EnvfsDirHandle objects: per handle its type, the
                \* directory and position of its DIR stream and its offset,
                \* and, kernel side, the entries received since opendir
    reply,      \* the last request handled, the replies sent for it (`sent`)
                \* and the last of them
    thr,        \* SpecMT: per worker thread, the position inside its handler
    crashed,    \* SpecMT: the helper aborted
    helper,     \* the helper's main(): its position and what it has set up
    toolboxes,  \* supervisor: impl->toolboxes, name -> container object (0: none)
    objs,       \* supervisor: the ToolboxContainer objects
    procs,      \* supervisor: outstanding podman start/stop subprocesses per object
    invocations,  \* supervisor: the Start/Stop method invocations and their state
    container_ps_subprocess,  \* supervisor: impl->container_ps_subprocess is set
    ps_procs,   \* supervisor: the `podman ps` subprocesses that have not exited
    trigger,    \* SpecFair: "dropped" when a trigger has called check_running
                \* and no listing was started by that call or since,
                \* "served" otherwise; "unobserved" in the other specifications
    envroot,    \* the children of the environment root directory: name -> file
    orphans,    \* names whose mount is served by the ENVFS child of a removed object
    stderr,     \* what the last callback printed about mounts and unmounts
                \* and about a listing that failed
    runtime_list,  \* the list of the last run of refresh_containers
    refreshed,  \* whether the last callback ran refresh_containers: "no", "yes",
                \* or "again" when on the list of the run before
    refresh_io, \* the last run of refresh_containers: whether the environment
                \* root could be enumerated, the operations that failed for a
                \* reason of their own, and the root a run free of such
                \* failures would have left
    daemon      \* the supervisor process, main.c: how far it has come, the
                \* mounts an earlier instance left in the environment root,
                \* the runs of toolbox_cleanup_old_mounts, and the mounts of
                \* the earlier and of this instance such a run unmounted

envVars == <<heap, inodes, nlookup, dcache, fds, dirh, reply, thr, crashed,
             helper>>
supVars == <<toolboxes, objs, procs, invocations, container_ps_subprocess,
             ps_procs, trigger, envroot, orphans, stderr, runtime_list, refreshed,
             refresh_io, daemon>>
vars == <<heap, inodes, nlookup, dcache, fds, dirh, reply, thr, crashed, helper,
          toolboxes, objs, procs, invocations, container_ps_subprocess,
          ps_procs, trigger, envroot, orphans, stderr, runtime_list, refreshed,
          refresh_io, daemon>>

(***************************************************************************)
(* Bounds of the model.                                                    *)
(***************************************************************************)
MaxInodes == 2      \* heap cells available to envfs_inode_new
MaxLookups == 3     \* lookup counts the kernel holds at any time (Spec)
MaxFds == 1         \* files held open at any time
MaxBatch == 2       \* length of a forget_multi list
MaxLookupsMT == 2   \* lookup counts held or in flight at any time (SpecMT)
NThreads == 2       \* kernel worker threads (SpecMT)
MaxObjs == 2        \* ToolboxContainer objects alive at any time (SpecSup)
MaxInvocations == 2 \* Start/Stop invocations not yet answered (SpecSup)
MaxPassObjs == 2    \* ToolboxContainer objects alive at any time (SpecPass)
MaxLifeCalls == 1   \* Start/Stop invocations not yet answered (SpecLife)
MaxDirs == 1        \* directory handles open at any time
MaxPathFds == 2     \* O_PATH descriptors open at any time

(***************************************************************************)
(* Integer helpers: the C bit operators on non-negative integers.          *)
(***************************************************************************)
\* (m & b) != 0 for a single bit b (a power of two).
Bit(m, b) == (m \div b) % 2

\* m & (b1 | b2 | b3) for three distinct single bits.
And3(m, b1, b2, b3) == b1 * Bit(m, b1) + b2 * Bit(m, b2) + b3 * Bit(m, b3)

RECURSIVE SumOver(_, _)
SumOver(S, f) ==
    IF S = {} THEN 0
    ELSE LET x == CHOOSE y \in S : TRUE
         IN  f[x] + SumOver(S \ {x}, f)

(***************************************************************************)
(* Program constants.                                                      *)
(***************************************************************************)
FUSE_ROOT_ID == 1
PermSpan == 4096      \* 010000, one more than the low twelve bits
S_IFDIR == 16384      \* 0040000
S_IFREG == 32768      \* 0100000
S_IWUSR == 128        \* 0200
S_IWGRP == 16         \* 0020
S_IWOTH == 2          \* 0002
S_IXUSR == 64         \* 0100
S_IXGRP == 8          \* 0010
S_IXOTH == 1          \* 0001
RootMode == 493       \* 0755
O_RDONLY == 0
O_WRONLY == 1
O_RDWR == 2
O_NONBLOCK == 2048       \* stands for any flag outside the access mode

FuseFd == 4
NULL == <<>>                            \* a NULL path
toolbox_run_path == <<"/toolbox-run">>  \* argv[3], an absolute host path

Addrs == (FUSE_ROOT_ID + 1) .. (FUSE_ROOT_ID + MaxInodes)
Inos == {FUSE_ROOT_ID} \cup Addrs
Names == {"exe", "raw", "bin", "ls", "cat", "gx"}
OpenFlags == {O_RDONLY, O_WRONLY, O_RDWR, O_RDONLY + O_NONBLOCK}

(***************************************************************************)
(* The container's file tree as seen through source_fd, and the host's     *)
(* run trampoline.  st_mode of each path; -1 where there is no file.       *)
(***************************************************************************)
FileMode(path) ==
    CASE path = NULL -> S_IFDIR + 493                   \* /          0755
      [] path = <<"bin">> -> S_IFDIR + 511              \* bin        0777
      [] path = <<"bin", "ls">> -> S_IFREG + 493        \* bin/ls     0755
      [] path = <<"bin", "cat">> -> S_IFREG + 493       \* bin/cat    0755
      [] path = <<"bin", "gx">> -> S_IFREG + 443        \* bin/gx     0673
      [] path = toolbox_run_path -> S_IFREG + 509       \* trampoline 0775
      [] OTHER -> -1

FileIno(path) ==
    CASE path = NULL -> 100
      [] path = <<"bin">> -> 101
      [] path = <<"bin", "ls">> -> 102
      [] path = <<"bin", "cat">> -> 103
      [] path = <<"bin", "gx">> -> 104
      [] path = toolbox_run_path -> 200
      [] OTHER -> 0

\* The outcomes of fstatat/lstat/fstat on a path: the file's attributes, or
\* an error (ENOENT when the file is missing; EIO stands for any failure
\* of the call on an existing file).
StatOutcomes(path) ==
    IF FileMode(path) = -1
    THEN {[err |-> "ENOENT", st_ino |-> 0, st_mode |-> 0]}
    ELSE {[err |-> "", st_ino |-> FileIno(path), st_mode |-> FileMode(path)],
          [err |-> "EIO", st_ino |-> 0, st_mode |-> 0]}

\* m & S_IFMT, for a 16-bit st_mode.
FileType(m) == m - (m % PermSpan)

S_ISREG(m) == FileType(m) = S_IFREG

\* (st_mode & 0100) != 0
IsExecutable(m) == Bit(m, S_IXUSR) # 0

\* st_mode &= ~0222
MaskWrite(m) == m - And3(m, S_IWUSR, S_IWGRP, S_IWOTH)


(***************************************************************************)
(* ENVFS inodes.  An inode number handed to the kernel is the address of   *)
(* the EnvfsInode, FUSE_ROOT_ID for the root inode.  refcount holds the    *)
(* signed representative of the 64-bit counter.                            *)
(***************************************************************************)
root_inode ==
    [alloc |-> TRUE, type |-> "ROOT", path |-> NULL, is_raw |-> FALSE,
     refcount |-> 1]

ZeroCell ==
    [alloc |-> FALSE, type |-> "OTHER", path |-> NULL, is_raw |-> FALSE,
     refcount |-> 0]

get_inode(ino) == IF ino = FUSE_ROOT_ID THEN root_inode ELSE heap[ino]

envfs_inode_new(type) ==
    [alloc |-> TRUE, type |-> type, path |-> NULL, is_raw |-> FALSE,
     refcount |-> 1]

envfs_inode_equal(a, b) == a.path = b.path /\ a.is_raw = b.is_raw

\* envfs_inode_hash, kept as the pair it is computed from: the model takes
\* is_raw * 60013 + g_str_hash(path) to tell the paths of the model apart.
envfs_inode_hash(inode) == <<inode.path, inode.is_raw>>

\* The table's node for the key `ptr`: GHashTable stores the hash the key
\* had when it was inserted next to the key pointer.
Node(hash, ptr) == [hash |-> hash, ptr |-> ptr]

TablePtrs(tbl) == {e.ptr : e \in tbl}

\* key_equal_func(node key, key): `stale` is what the comparison yields
\* when the node's key points to a freed inode.
KeyEqual(h, ptr, key, stale) ==
    IF h[ptr].alloc THEN envfs_inode_equal(h[ptr], key) ELSE stale

\* The outcomes of comparing through the freed keys of the table.
StaleOutcomes(h, tbl) ==
    IF \E e \in tbl : ~h[e.ptr].alloc THEN BOOLEAN ELSE {FALSE}

\* g_hash_table_lookup(inodes, key): the nodes with the key's hash whose key
\* compares equal.
HashLookup(h, tbl, key, stale) ==
    {e \in tbl : e.hash = envfs_inode_hash(key) /\ KeyEqual(h, e.ptr, key, stale)}

\* g_hash_table_insert(inodes, inode, inode) of a key no node compared
\* equal to.
HashInsert(tbl, key, ptr) == tbl \cup {Node(envfs_inode_hash(key), ptr)}

\* envfs_lookup_inode(path, is_raw), the whole body run under envfs_mutex:
\* the outcomes, one for each node the lookup may stop at or each address
\* malloc may return.
envfs_lookup_inode(h, tbl, path, is_raw, stale) ==
    LET tmp_inode == [path |-> path, is_raw |-> is_raw]
        found == HashLookup(h, tbl, tmp_inode, stale)
        inode == [envfs_inode_new("OTHER") EXCEPT !.path = path, !.is_raw = is_raw]
    IN  IF found # {}
        THEN {[heap |-> IF h[e.ptr].alloc
                        THEN [h EXCEPT ![e.ptr].refcount = @ + 1]
                        ELSE h,
               inodes |-> tbl,
               ino |-> e.ptr] : e \in found}
        ELSE {[heap |-> [h EXCEPT ![a] = inode],
               inodes |-> HashInsert(tbl, inode, a),
               ino |-> a] : a \in {x \in Addrs : ~h[x].alloc}}

NoAttr == [st_ino |-> 0, st_mode |-> 0]

\* The path envfs_lookup_other stats first.
ComposePath(parent_inode, name) ==
    IF parent_inode.path # NULL
    THEN Append(parent_inode.path, name)     \* g_build_filename
    ELSE <<name>>                            \* g_strdup(name)

\* A variant of envfs_lookup_root that takes every name but raw for exe.
envfs_lookup_root_anyname(name, st) ==
    IF st.err # ""
    THEN [err |-> st.err, path |-> NULL, is_raw |-> FALSE, attr |-> NoAttr,
          rewritten |-> FALSE]
    ELSE [err |-> "", path |-> NULL, is_raw |-> (name = "raw"),
          attr |-> [st_ino |-> st.st_ino, st_mode |-> MaskWrite(st.st_mode)],
          rewritten |-> FALSE]

\* envfs_lookup_root up to the call of envfs_lookup_inode: st is the
\* outcome of fstat(source_fd).
envfs_lookup_root(name, st) ==
    IF name # "raw" /\ name # "exe"
    THEN [err |-> "ENOENT", path |-> NULL, is_raw |-> FALSE, attr |-> NoAttr,
          rewritten |-> FALSE]
    ELSE IF st.err # ""
    THEN [err |-> st.err, path |-> NULL, is_raw |-> FALSE, attr |-> NoAttr,
          rewritten |-> FALSE]
    ELSE [err |-> "", path |-> NULL, is_raw |-> (name = "raw"),
          attr |-> [st_ino |-> st.st_ino, st_mode |-> MaskWrite(st.st_mode)],
          rewritten |-> FALSE]

\* A variant that forgets the view: executables are rewritten in raw too.
NeedsRewrite_anyview(is_raw, st_mode) ==
    S_ISREG(st_mode) /\ IsExecutable(st_mode)

\* The exe-view test of envfs_lookup_other and envfs_inode_stat.
NeedsRewrite(is_raw, st_mode) ==
    ~is_raw /\ S_ISREG(st_mode) /\ IsExecutable(st_mode)

\* A variant that interns the path of the container's file.
InternPath_own(path, rewrite) == path

\* The path envfs_lookup_other interns.
InternPath(path, rewrite) == IF rewrite THEN toolbox_run_path ELSE path

\* envfs_lookup_other up to the call of envfs_lookup_inode: st1 is the
\* outcome of the stat of the composed path, st2 that of the trampoline.
envfs_lookup_other(parent_inode, name, st1, st2) ==
    LET path == ComposePath(parent_inode, name)
        rewrite == st1.err = "" /\ NeedsRewrite(parent_inode.is_raw, st1.st_mode)
        st == IF rewrite THEN st2 ELSE st1
    IN  IF st1.err # ""
        THEN [err |-> st1.err, path |-> NULL, is_raw |-> FALSE,
              attr |-> NoAttr, rewritten |-> FALSE]
        ELSE IF st.err # ""
        THEN [err |-> st.err, path |-> NULL, is_raw |-> FALSE,
              attr |-> NoAttr, rewritten |-> FALSE]
        ELSE [err |-> "", path |-> InternPath(path, rewrite),
              is_raw |-> parent_inode.is_raw,
              attr |-> [st_ino |-> st.st_ino,
                        st_mode |-> MaskWrite(st.st_mode)],
              rewritten |-> rewrite]

\* envfs_lookup: dispatch on the parent's type.
envfs_lookup(parent_inode, name, st1, st2) ==
    IF parent_inode.type = "ROOT"
    THEN envfs_lookup_root(name, st1)
    ELSE envfs_lookup_other(parent_inode, name, st1, st2)

\* The path whose stat is the first one of a lookup.
FirstStatPath(parent_inode, name) ==
    IF parent_inode.type = "ROOT" THEN NULL
    ELSE ComposePath(parent_inode, name)

\* envfs_inode_stat: st1 is the outcome of fstatat on the inode's path,
\* st2 that of lstat on the trampoline.
RootStat == [st_ino |-> 1, st_mode |-> S_IFDIR + RootMode]

OtherStat(inode, st1, st2) ==
    LET rewrite == st1.err = "" /\ NeedsRewrite(inode.is_raw, st1.st_mode)
        st == IF rewrite THEN st2 ELSE st1
    IN  IF st1.err # "" THEN [err |-> st1.err, attr |-> NoAttr, rewritten |-> FALSE]
        ELSE IF st.err # "" THEN [err |-> st.err, attr |-> NoAttr, rewritten |-> FALSE]
        ELSE [err |-> "",
              attr |-> [st_ino |-> st.st_ino, st_mode |-> MaskWrite(st.st_mode)],
              rewritten |-> rewrite]

envfs_inode_stat(inode, st1, st2) ==
    IF inode.type = "ROOT"
    THEN [err |-> "", attr |-> RootStat, rewritten |-> FALSE]
    ELSE OtherStat(inode, st1, st2)

\* envfs_forget, step by step.
\* atomic_fetch_sub(&inode->refcount, nlookup): the heap after it.
\* A variant that takes one off whatever nlookup is.
FetchSub_one(h, ino, n) == [h EXCEPT ![ino].refcount = @ - 1]

FetchSub(h, ino, n) == [h EXCEPT ![ino].refcount = @ - n]

\* The test `after == nlookup` on the value fetch_sub returned.
DropsToZero(after, n) == after = n

\* g_hash_table_remove(inodes, inode), under envfs_mutex: the tables it may
\* leave.  `key` is what is read through inode; a node whose key is the
\* pointer inode itself compares equal.
HashRemove(h, tbl, ino, key, stale) ==
    LET found == {e \in tbl : /\ e.hash = envfs_inode_hash(key)
                              /\ (e.ptr = ino \/ KeyEqual(h, e.ptr, key, stale))}
    IN  IF found = {} THEN {tbl} ELSE {tbl \ {e} : e \in found}

\* g_free(inode->path); g_free(inode).  What a freed cell holds is not
\* defined; the model keeps no contents for it.
FreeInode(h, ino) == [h EXCEPT ![ino] = ZeroCell]

\* envfs_forget run from start to end on [heap, inodes]: the states it may
\* leave.
envfs_forget(st, ino, n, stale) ==
    IF get_inode(ino).type = "ROOT" THEN {st}
    ELSE LET after == st.heap[ino].refcount
             h1 == FetchSub(st.heap, ino, n)
         IN  IF DropsToZero(after, n)
             THEN {[heap |-> FreeInode(h1, ino), inodes |-> tbl] :
                      tbl \in HashRemove(h1, st.inodes, ino, h1[ino], stale)}
             ELSE {[heap |-> h1, inodes |-> st.inodes]}

\* envfs_forget_multi: envfs_forget over forgets[0 .. count-1] in order.
RECURSIVE envfs_forget_multi(_, _, _)
envfs_forget_multi(st, forgets, stale) ==
    IF forgets = <<>> THEN {st}
    ELSE UNION {envfs_forget_multi(st1, Tail(forgets), stale) :
                   st1 \in envfs_forget(st, Head(forgets).ino,
                                        Head(forgets).nlookup, stale)}

\* A variant that tests O_WRONLY alone.
HasWriteIntent_wronly(flags) == Bit(flags, O_WRONLY) # 0

\* fi->flags & (O_WRONLY | O_RDWR)
HasWriteIntent(flags) == Bit(flags, O_WRONLY) + Bit(flags, O_RDWR) # 0

\* A variant without the test of the inode's type.
envfs_open_check_notype(inode, flags) ==
    IF HasWriteIntent(flags) THEN "EACCES" ELSE ""

\* envfs_open up to the openat call.
envfs_open_check(inode, flags) ==
    IF HasWriteIntent(flags) THEN "EACCES"
    ELSE IF inode.type # "OTHER" THEN "EISDIR"
    ELSE ""


(***************************************************************************)
(* The kernel's side of the protocol.                                      *)
(***************************************************************************)
\* The inode numbers the kernel may name in a request.
KnownInos == {FUSE_ROOT_ID} \cup {a \in Addrs : nlookup[a] > 0}

HeldLookups == SumOver(Addrs, nlookup)

\* The kernel records the entry a lookup replied.
KernelEntry(dc, parent, name, child, attr) ==
    {d \in dc : ~(d.parent = parent /\ d.name = name)}
        \cup {[parent |-> parent, name |-> name, child |-> child, attr |-> attr]}

\* The kernel drops n of its lookup counts of ino.
KernelForgetCount(nl, ino, n) ==
    IF ino = FUSE_ROOT_ID THEN nl ELSE [nl EXCEPT ![ino] = @ - n]

KernelForgetEntries(dc, nl) ==
    {d \in dc : nl[d.child] > 0
                   /\ (IF d.parent = FUSE_ROOT_ID THEN TRUE ELSE nl[d.parent] > 0)}

\* The forget lists the kernel may send: distinct inodes in ascending order,
\* each with a count the kernel holds (the root with count 1).
ForgetItems ==
    {[ino |-> FUSE_ROOT_ID, nlookup |-> 1]}
        \cup {[ino |-> a, nlookup |-> n] : a \in Addrs, n \in 1 .. MaxLookups}

ValidItem(it) ==
    IF it.ino = FUSE_ROOT_ID THEN it.nlookup = 1 ELSE it.nlookup <= nlookup[it.ino]

ForgetLists ==
    {l \in UNION {[1 .. k -> {it \in ForgetItems : ValidItem(it)}] : k \in 1 .. MaxBatch} :
        \A i, j \in DOMAIN l : i < j => l[i].ino < l[j].ino}

RECURSIVE KernelForgetList(_, _)
KernelForgetList(nl, l) ==
    IF l = <<>> THEN nl
    ELSE KernelForgetList(KernelForgetCount(nl, Head(l).ino, Head(l).nlookup), Tail(l))

\* The outcomes of the stat of the trampoline, where the handler makes it
\* (st1 is the outcome of the first stat).
TrampolineOutcomes(inode, st1) ==
    IF inode.type = "OTHER" /\ st1.err = "" /\ NeedsRewrite(inode.is_raw, st1.st_mode)
    THEN StatOutcomes(toolbox_run_path)
    ELSE {st1}

NoReply ==
    [op |-> "none", ino |-> 0, name |-> "", flags |-> 0, sent |-> 0,
     err |-> "", ent |-> 0, attr |-> NoAttr, rewritten |-> FALSE, fh |-> 0]

\* One fuse_reply_* call made for the request.
Sent == [NoReply EXCEPT !.sent = 1]

\* The directory handles: fi->fh of opendir is the handle's address.
DirIds == 1 .. MaxDirs

NoDir ==
    [type |-> "", path |-> NULL, pos |-> 0, offset |-> 0, next |-> 0,
     seen |-> <<>>, eof |-> FALSE]

NoDirs == [h \in DirIds |-> NoDir]

(***************************************************************************)
(* The request handlers, each run from the request to its reply.           *)
(***************************************************************************)
Lookup(parent, name) ==
    /\ parent \in KnownInos
    /\ HeldLookups < MaxLookups
    /\ \E st1 \in StatOutcomes(FirstStatPath(get_inode(parent), name)) :
       \E st2 \in TrampolineOutcomes(get_inode(parent), st1) :
          LET plan == envfs_lookup(get_inode(parent), name, st1, st2)
          IN  IF plan.err # ""
              THEN /\ reply' = [Sent EXCEPT !.op = "lookup", !.ino = parent,
                                    !.name = name, !.err = plan.err]
                   /\ UNCHANGED <<heap, inodes, nlookup, dcache>>
              ELSE \E stale \in StaleOutcomes(heap, inodes) :
                   \E r \in envfs_lookup_inode(heap, inodes, plan.path,
                                                plan.is_raw, stale) :
                       /\ heap' = r.heap
                       /\ inodes' = r.inodes
                       /\ nlookup' = [nlookup EXCEPT ![r.ino] = @ + 1]
                       /\ dcache' = KernelEntry(dcache, parent, name, r.ino, plan.attr)
                       /\ reply' = [Sent EXCEPT !.op = "lookup", !.ino = parent,
                                        !.name = name, !.ent = r.ino,
                                        !.attr = plan.attr,
                                        !.rewritten = plan.rewritten]
    /\ UNCHANGED <<fds, thr, crashed>>
    /\ UNCHANGED <<helper, dirh, supVars>>

Forget(ino, n) ==
    /\ ValidItem([ino |-> ino, nlookup |-> n])
    /\ \E stale \in StaleOutcomes(heap, inodes) :
       \E st \in envfs_forget([heap |-> heap, inodes |-> inodes], ino, n, stale) :
       LET nl == KernelForgetCount(nlookup, ino, n)
       IN  /\ heap' = st.heap
           /\ inodes' = st.inodes
           /\ nlookup' = nl
           /\ dcache' = KernelForgetEntries(dcache, nl)
    /\ reply' = [NoReply EXCEPT !.op = "forget", !.ino = ino]
    /\ UNCHANGED <<fds, thr, crashed>>
    /\ UNCHANGED <<helper, dirh, supVars>>

ForgetMulti(forgets) ==
    /\ \E stale \in StaleOutcomes(heap, inodes) :
       \E st \in envfs_forget_multi([heap |-> heap, inodes |-> inodes], forgets, stale) :
       LET nl == KernelForgetList(nlookup, forgets)
       IN  /\ heap' = st.heap
           /\ inodes' = st.inodes
           /\ nlookup' = nl
           /\ dcache' = KernelForgetEntries(dcache, nl)
    /\ reply' = [NoReply EXCEPT !.op = "forget_multi", !.ino = Head(forgets).ino]
    /\ UNCHANGED <<fds, thr, crashed>>
    /\ UNCHANGED <<helper, dirh, supVars>>

Getattr(ino) ==
    /\ ino \in KnownInos
    /\ \E st1 \in StatOutcomes(get_inode(ino).path) :
       \E st2 \in TrampolineOutcomes(get_inode(ino), st1) :
          LET r == envfs_inode_stat(get_inode(ino), st1, st2)
          IN  reply' = [Sent EXCEPT !.op = "getattr", !.ino = ino,
                            !.err = r.err, !.attr = r.attr,
                            !.rewritten = r.rewritten]
    /\ UNCHANGED <<heap, inodes, nlookup, dcache, fds, thr, crashed>>
    /\ UNCHANGED <<helper, dirh, supVars>>

\* The descriptor open() returns: the lowest one not in use.  0 to 2 are
\* the standard streams, 3 is source_fd and FuseFd the channel of fuse_mount.
FdNumbers == (FuseFd + 1) .. (FuseFd + MaxFds)
LowestFd == CHOOSE fd \in FdNumbers \ fds : \A o \in FdNumbers \ fds : fd <= o

\* The outcomes of the openat call of envfs_open, where it is made.
OpenOutcomes(ino, flags) ==
    IF envfs_open_check(get_inode(ino), flags) = "" /\ FileMode(get_inode(ino).path) # -1
    THEN BOOLEAN
    ELSE {FALSE}

\* envfs_open: opened is whether openat succeeds.
Open(ino, flags, opened) ==
    /\ ino \in KnownInos
    /\ LET e == envfs_open_check(get_inode(ino), flags)
       IN  IF e # ""
           THEN /\ reply' = [Sent EXCEPT !.op = "open", !.ino = ino,
                                 !.flags = flags, !.err = e]
                /\ fds' = fds
           ELSE IF ~opened \/ FileMode(get_inode(ino).path) = -1
           THEN /\ reply' = [Sent EXCEPT !.op = "open", !.ino = ino,
                                 !.flags = flags,
                                 !.err = IF FileMode(get_inode(ino).path) = -1
                                         THEN "ENOENT" ELSE "EIO"]
                /\ fds' = fds
           ELSE /\ FdNumbers \ fds # {}
                /\ reply' = [Sent EXCEPT !.op = "open", !.ino = ino,
                                 !.flags = flags, !.fh = LowestFd]
                /\ fds' = fds \cup {LowestFd}
    /\ UNCHANGED <<heap, inodes, nlookup, dcache, thr, crashed>>
    /\ UNCHANGED <<helper, dirh, supVars>>

\* envfs_release: close(fi->fh), reply 0.
Release(fh) ==
    /\ fh \in fds
    /\ fds' = fds \ {fh}
    /\ reply' = [Sent EXCEPT !.op = "release", !.fh = fh]
    /\ UNCHANGED <<heap, inodes, nlookup, dcache, thr, crashed>>
    /\ UNCHANGED <<helper, dirh, supVars>>

(***************************************************************************)
(* The handlers of extended attributes, access, readlink and read.         *)
(***************************************************************************)
W_OK == 2

AccessMasks == {0, W_OK, 4}

\* Whether openat on the inode's path can succeed.
PathOpenOutcomes(inode) == IF FileMode(inode.path) # -1 THEN BOOLEAN ELSE {FALSE}

\* The descriptors of the O_PATH opens of envfs_inode_get_fd.  They are
\* numbered apart from FdNumbers, which the kernel holds as file handles,
\* so that a read or release names a descriptor of envfs_open only.
PathFdNumbers == (FuseFd + MaxFds + 1) .. (FuseFd + MaxFds + MaxPathFds)

\* envfs_inode_get_fd: the descriptor of EnvfsFd, -1 when openat fails
\* (`opened` is whether it can succeed; it cannot with no descriptor free).
envfs_inode_get_fd(inode, opened) ==
    IF inode.path # NULL
    THEN IF opened /\ PathFdNumbers \ fds # {}
         THEN CHOOSE fd \in PathFdNumbers \ fds :
                 \A o \in PathFdNumbers \ fds : fd <= o
         ELSE -1
    ELSE helper.source_fd

\* The descriptors open once envfs_inode_get_fd has returned fd.
WithFd(open, fd) == IF fd \in PathFdNumbers THEN open \cup {fd} ELSE open

\* envfs_fd_clear: the descriptors open afterwards.
envfs_fd_clear(open, fd) ==
    IF fd # -1 /\ fd # helper.source_fd THEN open \ {fd} ELSE open

\* The errno of a failed openat on the inode's path.
OpenErrno(inode) == IF FileMode(inode.path) = -1 THEN "ENOENT" ELSE "EMFILE"

\* envfs_getxattr: `alloc` is whether g_try_malloc gives the buffer,
\* `found` whether getxattr finds the attribute.
Getxattr(ino, name, alloc, opened, found) ==
    /\ ino \in KnownInos
    /\ LET inode == get_inode(ino)
           fd == envfs_inode_get_fd(inode, opened)
           r == [Sent EXCEPT !.op = "getxattr", !.ino = ino, !.name = name]
       IN  IF ~alloc
           THEN reply' = [r EXCEPT !.err = "ENOMEM"] /\ fds' = fds
           ELSE IF inode.type = "ROOT"
           THEN reply' = [r EXCEPT !.err = "ENODATA"] /\ fds' = fds
           ELSE IF fd = -1
           THEN reply' = [r EXCEPT !.err = OpenErrno(inode)] /\ fds' = fds
           ELSE /\ reply' = [r EXCEPT !.err = IF found THEN "" ELSE "ENODATA"]
                /\ fds' = WithFd(fds, fd)
    /\ UNCHANGED <<heap, inodes, nlookup, dcache, dirh, thr, crashed>>
    /\ UNCHANGED <<helper, supVars>>

\* envfs_listxattr: `listed` is whether flistxattr succeeds.
Listxattr(ino, alloc, opened, listed) ==
    /\ ino \in KnownInos
    /\ LET inode == get_inode(ino)
           fd == envfs_inode_get_fd(inode, opened)
           r == [Sent EXCEPT !.op = "listxattr", !.ino = ino]
       IN  IF ~alloc
           THEN reply' = [r EXCEPT !.err = "ENOMEM"] /\ fds' = fds
           ELSE IF inode.type = "ROOT"
           THEN reply' = r /\ fds' = fds
           ELSE IF fd = -1
           THEN reply' = [r EXCEPT !.err = OpenErrno(inode)] /\ fds' = fds
           ELSE /\ reply' = [r EXCEPT !.err = IF listed THEN "" ELSE "EIO"]
                /\ fds' = WithFd(fds, fd)
    /\ UNCHANGED <<heap, inodes, nlookup, dcache, dirh, thr, crashed>>
    /\ UNCHANGED <<helper, supVars>>

\* envfs_access: `allowed` is whether access() returns 0.  fd is declared
\* with g_auto, so envfs_fd_clear runs when the block is left.
Access(ino, mask, opened, allowed) ==
    /\ ino \in KnownInos
    /\ LET inode == get_inode(ino)
           fd == envfs_inode_get_fd(inode, opened)
           r == [Sent EXCEPT !.op = "access", !.ino = ino, !.flags = mask]
       IN  IF Bit(mask, W_OK) # 0
           THEN reply' = [r EXCEPT !.err = "EACCES"] /\ fds' = fds
           ELSE IF inode.type = "ROOT"
           THEN reply' = r /\ fds' = fds
           ELSE IF fd = -1
           THEN /\ reply' = [r EXCEPT !.err = OpenErrno(inode)]
                /\ fds' = envfs_fd_clear(fds, fd)
           ELSE /\ reply' = [r EXCEPT !.err = IF allowed THEN "" ELSE "EACCES"]
                /\ fds' = envfs_fd_clear(WithFd(fds, fd), fd)
    /\ UNCHANGED <<heap, inodes, nlookup, dcache, dirh, thr, crashed>>
    /\ UNCHANGED <<helper, supVars>>

\* envfs_readlink: the tree of the model has no symbolic link, so
\* readlinkat fails: EFAULT for the NULL path of a view root, ENOENT for a
\* missing file, EINVAL for a file that is no link.
Readlink(ino) ==
    /\ ino \in KnownInos
    /\ LET inode == get_inode(ino)
           e == IF inode.type = "ROOT" THEN "EINVAL"
                ELSE IF inode.path = NULL THEN "EFAULT"
                ELSE IF FileMode(inode.path) = -1 THEN "ENOENT"
                ELSE "EINVAL"
       IN  reply' = [Sent EXCEPT !.op = "readlink", !.ino = ino, !.err = e]
    /\ UNCHANGED <<heap, inodes, nlookup, dcache, fds, dirh, thr, crashed>>
    /\ UNCHANGED <<helper, supVars>>

\* envfs_read: fuse_reply_data on the descriptor of the open file.
Read(fh) ==
    /\ fh \in fds
    /\ reply' = [Sent EXCEPT !.op = "read", !.fh = fh]
    /\ UNCHANGED <<heap, inodes, nlookup, dcache, fds, dirh, thr, crashed>>
    /\ UNCHANGED <<helper, supVars>>

(***************************************************************************)
(* Directories.  A DIR stream is the directory it reads and its position,  *)
(* the number of entries read; the d_off of an entry is the position       *)
(* after it.                                                               *)
(***************************************************************************)
\* The entries readdir(3) returns for the directories of the tree.
DirEntries(path) ==
    CASE path = NULL -> <<".", "..", "bin">>
      [] path = <<"bin">> -> <<".", "..", "ls", "cat", "gx">>
      [] OTHER -> <<>>

\* The entries of envfs_readdir_root, by the offset that precedes them.
RootEntries == <<".", "..", "exe", "raw">>

\* What fuse_add_direntry returns: FUSE_NAME_OFFSET and the name padded to
\* a multiple of 8; the names of the model have 1 to 8 characters.
fuse_add_direntry(name) == 24 + 8

\* The buffer sizes of the readdir requests.
DirSizes == {fuse_add_direntry("."), 2 * fuse_add_direntry("."),
             6 * fuse_add_direntry(".")}

\* The loop of envfs_readdir_other and envfs_readdir_root from position
\* pos: the position and offset it ends with, the entries added to the
\* buffer and the errno of a failed readdir.  fail_after is the number of
\* calls of readdir before the one that fails (negative: none fails).
RECURSIVE ReadLoop(_, _, _, _, _, _)
ReadLoop(entries, pos, offset, buf, remaining, fail_after) ==
    IF fail_after = 0
    THEN [pos |-> pos, offset |-> offset, buf |-> buf, err |-> "EIO"]
    ELSE IF pos >= Len(entries)
    THEN [pos |-> pos, offset |-> offset, buf |-> buf, err |-> ""]
    ELSE LET e == [name |-> entries[pos + 1], d_off |-> pos + 1]
             this_used == fuse_add_direntry(e.name)
         IN  IF remaining < this_used
             THEN [pos |-> pos + 1, offset |-> e.d_off, buf |-> buf, err |-> ""]
             ELSE ReadLoop(entries, pos + 1, e.d_off, Append(buf, e),
                           remaining - this_used, fail_after - 1)

\* A variant of envfs_readdir_other that never calls seekdir.
envfs_readdir_other_noseek(handle, size, off, alloc, fail_after) ==
    IF ~alloc THEN [handle |-> handle, buf |-> <<>>, err |-> "ENOMEM"]
    ELSE LET r == ReadLoop(DirEntries(handle.path), handle.pos, handle.offset,
                           <<>>, size, fail_after)
         IN  [handle |-> [handle EXCEPT !.pos = r.pos, !.offset = r.offset],
              buf |-> IF r.err = "" THEN r.buf ELSE <<>>, err |-> r.err]

\* envfs_readdir_other: the handle afterwards and the reply.
envfs_readdir_other(handle, size, off, alloc, fail_after) ==
    IF ~alloc THEN [handle |-> handle, buf |-> <<>>, err |-> "ENOMEM"]
    ELSE LET sought == IF handle.offset # off
                       THEN [handle EXCEPT !.pos = off, !.offset = off]
                       ELSE handle
             r == ReadLoop(DirEntries(sought.path), sought.pos, sought.offset,
                           <<>>, size, fail_after)
         IN  [handle |-> [sought EXCEPT !.pos = r.pos, !.offset = r.offset],
              buf |-> IF r.err = "" THEN r.buf ELSE <<>>, err |-> r.err]

\* envfs_readdir_root: it keeps nothing in the handle.
envfs_readdir_root(handle, size, off, alloc) ==
    IF ~alloc THEN [handle |-> handle, buf |-> <<>>, err |-> "ENOMEM"]
    ELSE [handle |-> handle,
          buf |-> ReadLoop(RootEntries, off, off, <<>>, size, -1).buf,
          err |-> ""]

\* envfs_readdir: dispatch on the handle's type.
envfs_readdir(handle, size, off, alloc, fail_after) ==
    IF handle.type = "ROOT"
    THEN envfs_readdir_root(handle, size, off, alloc)
    ELSE envfs_readdir_other(handle, size, off, alloc, fail_after)

\* The kernel's record of a handle after a reply: the names received since
\* opendir or the last rewind, the offset of the last of them, and whether
\* the last reply was empty, which is the end of the directory.
KernelReaddir(handle, off, buf, err) ==
    LET before == IF off = 0 THEN <<>> ELSE handle.seen
    IN  IF err # "" THEN handle
        ELSE [handle EXCEPT
                 !.seen = before \o [k \in 1 .. Len(buf) |-> buf[k].name],
                 !.next = IF buf = <<>> THEN off ELSE buf[Len(buf)].d_off,
                 !.eof = (buf = <<>>)]

FreeDirs == {h \in DirIds : dirh[h].type = ""}

\* envfs_opendir: `opened` is whether openat succeeds, `streamed` whether
\* fdopendir does.
Opendir(ino, opened, streamed) ==
    /\ ino \in KnownInos
    /\ FreeDirs # {}
    /\ LET inode == get_inode(ino)
           r == [Sent EXCEPT !.op = "opendir", !.ino = ino]
           h == CHOOSE x \in FreeDirs : \A y \in FreeDirs : x <= y
           isdir == FileMode(inode.path) # -1
                       /\ FileType(FileMode(inode.path)) = S_IFDIR
       IN  IF inode.type = "OTHER" /\ ~(isdir /\ opened)
           THEN /\ reply' = [r EXCEPT !.err = IF FileMode(inode.path) = -1
                                               THEN "ENOENT"
                                               ELSE IF isdir THEN "EMFILE"
                                               ELSE "ENOTDIR"]
                /\ dirh' = dirh
           ELSE IF inode.type = "OTHER" /\ ~streamed
           THEN /\ reply' = [r EXCEPT !.err = "ENOMEM"]
                /\ dirh' = dirh
           ELSE /\ reply' = [r EXCEPT !.fh = h]
                /\ dirh' = [dirh EXCEPT ![h] =
                               [NoDir EXCEPT !.type = inode.type,
                                             !.path = inode.path]]
    /\ UNCHANGED <<heap, inodes, nlookup, dcache, fds, thr, crashed>>
    /\ UNCHANGED <<helper, supVars>>

\* envfs_readdir on handle h.
Readdir(h, size, off, alloc, fail_after) ==
    /\ dirh[h].type # ""
    /\ LET r == envfs_readdir(dirh[h], size, off, alloc, fail_after)
       IN  /\ dirh' = [dirh EXCEPT ![h] = KernelReaddir(r.handle, off, r.buf, r.err)]
           /\ reply' = [Sent EXCEPT !.op = "readdir", !.fh = h, !.flags = size,
                                    !.err = r.err]
    /\ UNCHANGED <<heap, inodes, nlookup, dcache, fds, thr, crashed>>
    /\ UNCHANGED <<helper, supVars>>

\* envfs_releasedir on handle h: `closed` is whether closedir returns 0.
\* The case of a root handle makes no fuse_reply_* call.
Releasedir(h, closed) ==
    /\ dirh[h].type # ""
    /\ LET r == [NoReply EXCEPT !.op = "releasedir", !.fh = h]
       IN  IF dirh[h].type = "ROOT"
           THEN reply' = r
           ELSE reply' = [r EXCEPT !.sent = 1,
                                   !.err = IF closed THEN "" ELSE "EIO"]
    /\ dirh' = [dirh EXCEPT ![h] = NoDir]
    /\ UNCHANGED <<heap, inodes, nlookup, dcache, fds, thr, crashed>>
    /\ UNCHANGED <<helper, supVars>>

(***************************************************************************)
(* The supervisor's data.  A ToolboxContainer is a slot of objs; a slot     *)
(* with an empty name holds no object.  An object that left the table is    *)
(* kept for as long as a task of its pending lists refers to it.            *)
(***************************************************************************)
Containers == {"fedora-toolbox-a", "work"}

Pids == {0, 7}

ObjIds == 1 .. MaxObjs

InvIds == 1 .. MaxInvocations

NoObj ==
    [name |-> "", id |-> "", pid |-> 0, fuse_subprocess |-> 0,
     pending_start_tasks |-> <<>>, pending_stop_tasks |-> <<>>]

NoProcs == [start |-> 0, stop |-> 0]

\* st: "free", "waiting" (its task is in a pending list), "returned_ok" and
\* "returned_err" (its task has returned, the callback is still to run),
\* "ok", "err", "invalid" (answered).  An answered invocation is kept for
\* the one state that follows its answer, with nothing but the answer when
\* that is "ok" or "err".
NoInvocation == [verb |-> "", name |-> "", obj |-> 0, st |-> "free"]

\* A child of the environment root: its type ("none" where there is no
\* file, "directory", "regular", "symlink") and, for a symbolic link, its
\* target.
File(type, target) == [type |-> type, target |-> target]

NoFile == File("none", "")

DefaultLink == "_default"

\* No list: refresh_containers has not run yet.
NoList == [valid |-> FALSE, list |-> <<>>]

\* A line of stderr about the mount of a container.
Msg(msg, name) == [msg |-> msg, name |-> name]

\* What g_file_enumerate_children and the file operations of a run of
\* refresh_containers come to: `failing` holds the operations, as
\* <<"delete" | "mkdir" | "symlink", name>>, that fail whatever the state of
\* the directory is.  Here nothing fails.
FsOk == [enumerated |-> TRUE, failing |-> {}]

\* The supervisor process in g_main_loop_run after on_bus_acquired, with no
\* mount of an earlier instance in the environment root.
Running ==
    [phase |-> "running", stale |-> {}, sweeps |-> 1, swept |-> {},
     swept_own |-> {}]

\* The callbacks other than on_ps_process_done: they leave the environment
\* root and the ENVFS children alone.
NoPass ==
    /\ stderr' = {}
    /\ refreshed' = "no"
    /\ UNCHANGED <<envroot, orphans, runtime_list, refresh_io, daemon>>

\* The supervisor after toolbox_manager_impl_init and
\* toolbox_manager_impl_start on a new environment root.
SupIdle ==
    /\ toolboxes = [n \in Containers |-> 0]
    /\ objs = [o \in ObjIds |-> NoObj]
    /\ procs = [o \in ObjIds |-> NoProcs]
    /\ invocations = [i \in InvIds |-> NoInvocation]
    /\ container_ps_subprocess = FALSE
    /\ ps_procs = 0
    /\ envroot = [n \in Containers \cup {DefaultLink} |-> NoFile]
    /\ orphans = {}
    /\ stderr = {}
    /\ runtime_list = NoList
    /\ refreshed = "no"
    /\ refresh_io = [io |-> FsOk, ideal |-> envroot]
    /\ daemon = Running

\* main() before its first statement.  source_fd is -1 until it is opened,
\* ns is the user namespace the process is in, source_ns the one it was in
\* when it opened source_fd, failed the step of the set-up that failed, and
\* status the exit status (-1 while the process runs).
NotStarted ==
    [pc |-> "start", container_pid |-> 0, source_fd |-> -1, source_ns |-> "",
     ns |-> "host", mounted |-> FALSE, session |-> FALSE, looped |-> FALSE,
     failed |-> "", status |-> -1]

\* main() inside fuse_session_loop_mt, for a container of pid 7.
Serving ==
    [NotStarted EXCEPT !.pc = "loop", !.container_pid = 7, !.source_fd = 3,
                       !.source_ns = "host", !.ns = "container",
                       !.mounted = TRUE, !.session = TRUE, !.looped = TRUE]

EnvInit ==
    /\ helper = Serving
    /\ heap = [a \in Addrs |-> ZeroCell]
    /\ inodes = {}
    /\ nlookup = [a \in Addrs |-> 0]
    /\ dcache = {}
    /\ fds = {}
    /\ dirh = NoDirs
    /\ reply = NoReply
    /\ thr = <<>>
    /\ crashed = FALSE

Init == EnvInit /\ SupIdle /\ trigger = "unobserved"

Next ==
    \/ \E parent \in Inos, name \in Names : Lookup(parent, name)
    \/ \E ino \in Inos, n \in 1 .. MaxLookups : Forget(ino, n)
    \/ \E forgets \in ForgetLists : ForgetMulti(forgets)
    \/ \E ino \in Inos : Getattr(ino)

Spec == Init /\ [][Next]_vars

\* The handlers that work on open files, on the inodes that lookups of
\* IONames produce.
IONames == {"exe", "raw", "bin", "ls"}

NextIO ==
    \/ \E parent \in Inos, name \in IONames : Lookup(parent, name)
    \/ \E ino \in Inos, n \in 1 .. MaxLookups : Forget(ino, n)
    \/ \E ino \in Inos, flags \in OpenFlags :
          \E opened \in OpenOutcomes(ino, flags) : Open(ino, flags, opened)
    \/ \E fh \in FdNumbers : Release(fh)

SpecIO == Init /\ [][NextIO]_vars

\* Every handler of `ops` that replies, on the inodes that lookups of
\* OpsNames produce.
OpsNames == {"exe", "bin"}

NextOps ==
    \/ \E parent \in Inos, name \in OpsNames : Lookup(parent, name)
    \/ \E ino \in Inos : Getattr(ino)
    \/ \E ino \in Inos : Readlink(ino)
    \/ \E ino \in Inos, flags \in {O_RDONLY, O_WRONLY} :
          \E opened \in OpenOutcomes(ino, flags) : Open(ino, flags, opened)
    \/ \E fh \in FdNumbers : Read(fh)
    \/ \E fh \in FdNumbers : Release(fh)
    \/ \E ino \in Inos, streamed \in BOOLEAN :
          \E opened \in PathOpenOutcomes(get_inode(ino)) :
             Opendir(ino, opened, streamed)
    \/ \E h \in DirIds, alloc \in BOOLEAN, fail_after \in {-1, 0} :
          Readdir(h, 2 * fuse_add_direntry("."), dirh[h].next, alloc, fail_after)
    \/ \E h \in DirIds, closed \in BOOLEAN : Releasedir(h, closed)
    \/ \E ino \in Inos, alloc \in BOOLEAN, found \in BOOLEAN :
          \E opened \in PathOpenOutcomes(get_inode(ino)) :
             Getxattr(ino, "user.x", alloc, opened, found)
    \/ \E ino \in Inos, alloc \in BOOLEAN, listed \in BOOLEAN :
          \E opened \in PathOpenOutcomes(get_inode(ino)) :
             Listxattr(ino, alloc, opened, listed)
    \/ \E ino \in Inos, mask \in AccessMasks, allowed \in BOOLEAN :
          \E opened \in PathOpenOutcomes(get_inode(ino)) :
             Access(ino, mask, opened, allowed)

SpecOps == Init /\ [][NextOps]_vars

\* The directory handlers, with requests of any of DirSizes that resume
\* where the reply before ended or rewind, and readdir(3) failing at will.
DirNames == {"exe", "raw", "bin"}

NextDir ==
    \/ \E parent \in Inos, name \in DirNames : Lookup(parent, name)
    \/ \E ino \in Inos, streamed \in BOOLEAN :
          \E opened \in PathOpenOutcomes(get_inode(ino)) :
             Opendir(ino, opened, streamed)
    \/ \E h \in DirIds, size \in DirSizes, alloc \in BOOLEAN,
          fail_after \in -1 .. 2 :
          \E off \in {dirh[h].next, 0} : Readdir(h, size, off, alloc, fail_after)
    \/ \E h \in DirIds, closed \in BOOLEAN : Releasedir(h, closed)

SpecDir == Init /\ [][NextDir]_vars


(***************************************************************************)
(* SpecMT: lookup, forget and forget_multi on concurrent worker threads.   *)
(* A step is what a thread does between two points where another thread    *)
(* can observe or change the inode table or a refcount: the body of        *)
(* envfs_lookup_inode and the g_hash_table_remove of envfs_forget run      *)
(* under envfs_mutex, atomic_fetch_sub is one atomic access.  SpecMT       *)
(* records neither the text of the replies nor the kernel's dentries.      *)
(*                                                                         *)
(* Reading an inode that was freed is undefined: the thread aborts the     *)
(* helper (MTAbort) or goes on with whatever the cell holds, any value of  *)
(* StaleCells; what it writes to a freed cell is lost.                     *)
(***************************************************************************)
Threads == 1 .. NThreads

MTNames == {"exe", "raw"}

IdleThread == [pc |-> "idle", ino |-> 0, todo |-> <<>>]

StaleCells ==
    [alloc : {FALSE}, type : {"ROOT", "OTHER"}, path : {NULL, <<"bin">>},
     is_raw : BOOLEAN, refcount : 0 .. MaxLookupsMT]

\* What a thread reads through the inode pointer ino.
Deref(ino) ==
    IF ino = FUSE_ROOT_ID THEN {root_inode}
    ELSE IF heap[ino].alloc THEN {heap[ino]}
    ELSE StaleCells

Dangling(ino) == ino # FUSE_ROOT_ID /\ ~heap[ino].alloc

InFlightLookups == Cardinality({t \in Threads : thr[t].pc = "reply"})

\* envfs_lookup up to the return of envfs_lookup_inode; an error is replied
\* at once.
MTLookup(t, parent, name) ==
    /\ ~crashed
    /\ thr[t].pc = "idle"
    /\ parent \in KnownInos
    /\ HeldLookups + InFlightLookups < MaxLookupsMT
    /\ \E parent_inode \in Deref(parent) :
       \E st1 \in StatOutcomes(FirstStatPath(parent_inode, name)) :
       \E st2 \in TrampolineOutcomes(parent_inode, st1) :
          LET plan == envfs_lookup(parent_inode, name, st1, st2)
          IN  IF plan.err # ""
              THEN UNCHANGED <<heap, inodes, thr>>
              ELSE \E stale \in StaleOutcomes(heap, inodes) :
                   \E r \in envfs_lookup_inode(heap, inodes, plan.path,
                                                plan.is_raw, stale) :
                       /\ heap' = r.heap
                       /\ inodes' = r.inodes
                       /\ thr' = [thr EXCEPT ![t] =
                                     [pc |-> "reply", ino |-> r.ino, todo |-> <<>>]]
    /\ UNCHANGED <<nlookup, dcache, fds, reply, crashed>>
    /\ UNCHANGED <<helper, dirh, supVars>>

\* fuse_reply_entry: the kernel counts one more lookup of the inode.
MTReply(t) ==
    /\ ~crashed
    /\ thr[t].pc = "reply"
    /\ nlookup' = [nlookup EXCEPT ![thr[t].ino] = @ + 1]
    /\ thr' = [thr EXCEPT ![t] = IdleThread]
    /\ UNCHANGED <<heap, inodes, dcache, fds, reply, crashed>>
    /\ UNCHANGED <<helper, dirh, supVars>>

\* The kernel sends a forget (a list of one) or a forget_multi and drops its
\* counts; thread t takes the request.
MTForgetBegin(t, forgets) ==
    /\ ~crashed
    /\ thr[t].pc = "idle"
    /\ nlookup' = KernelForgetList(nlookup, forgets)
    /\ thr' = [thr EXCEPT ![t] = [pc |-> "forget", ino |-> 0, todo |-> forgets]]
    /\ UNCHANGED <<heap, inodes, dcache, fds, reply, crashed>>
    /\ UNCHANGED <<helper, dirh, supVars>>

\* The thread's position after the current list element is done.
NextItem(rest) ==
    IF rest = <<>> THEN IdleThread
    ELSE [pc |-> "forget", ino |-> 0, todo |-> rest]

\* envfs_forget on the next list element, up to the test of `after`.
MTFetchSub(t) ==
    /\ ~crashed
    /\ thr[t].pc = "forget"
    /\ LET ino == Head(thr[t].todo).ino
           n == Head(thr[t].todo).nlookup
           rest == Tail(thr[t].todo)
       IN  \E inode \in Deref(ino) :
              IF inode.type = "ROOT"
              THEN /\ thr' = [thr EXCEPT ![t] = NextItem(rest)]
                   /\ heap' = heap
              ELSE /\ heap' = IF Dangling(ino) THEN heap ELSE FetchSub(heap, ino, n)
                   /\ thr' = [thr EXCEPT ![t] =
                                 IF DropsToZero(inode.refcount, n)
                                 THEN [pc |-> "remove", ino |-> ino, todo |-> rest]
                                 ELSE NextItem(rest)]
    /\ UNCHANGED <<inodes, nlookup, dcache, fds, reply, crashed>>
    /\ UNCHANGED <<helper, dirh, supVars>>

\* g_mutex_lock; g_hash_table_remove(inodes, inode); g_mutex_unlock.
MTRemove(t) ==
    /\ ~crashed
    /\ thr[t].pc = "remove"
    /\ \E key \in Deref(thr[t].ino), stale \in StaleOutcomes(heap, inodes) :
          inodes' \in HashRemove(heap, inodes, thr[t].ino, key, stale)
    /\ thr' = [thr EXCEPT ![t].pc = "free"]
    /\ UNCHANGED <<heap, nlookup, dcache, fds, reply, crashed>>
    /\ UNCHANGED <<helper, dirh, supVars>>

\* g_free(inode->path); g_free(inode).
MTFree(t) ==
    /\ ~crashed
    /\ thr[t].pc = "free"
    /\ heap' = FreeInode(heap, thr[t].ino)
    /\ thr' = [thr EXCEPT ![t] = NextItem(thr[t].todo)]
    /\ UNCHANGED <<inodes, nlookup, dcache, fds, reply, crashed>>
    /\ UNCHANGED <<helper, dirh, supVars>>

\* The inode pointer the thread's next step reads through or frees.
NextPointer(t) ==
    CASE thr[t].pc = "forget" -> Head(thr[t].todo).ino
      [] thr[t].pc \in {"remove", "free"} -> thr[t].ino
      [] OTHER -> FUSE_ROOT_ID

\* The helper aborts on the use or the second free of a freed inode.
MTAbort(t) ==
    /\ ~crashed
    /\ Dangling(NextPointer(t))
    /\ crashed' = TRUE
    /\ UNCHANGED <<heap, inodes, nlookup, dcache, fds, reply, thr>>
    /\ UNCHANGED <<helper, dirh, supVars>>

\* The helper aborts in a lookup whose parent inode was freed.
MTLookupAbort(t, parent) ==
    /\ ~crashed
    /\ thr[t].pc = "idle"
    /\ parent \in KnownInos
    /\ Dangling(parent)
    /\ crashed' = TRUE
    /\ UNCHANGED <<heap, inodes, nlookup, dcache, fds, reply, thr>>
    /\ UNCHANGED <<helper, dirh, supVars>>

InitMT ==
    /\ heap = [a \in Addrs |-> ZeroCell]
    /\ inodes = {}
    /\ nlookup = [a \in Addrs |-> 0]
    /\ dcache = {}
    /\ fds = {}
    /\ dirh = NoDirs
    /\ reply = NoReply
    /\ thr = [t \in Threads |-> IdleThread]
    /\ crashed = FALSE
    /\ helper = Serving
    /\ SupIdle
    /\ trigger = "unobserved"

NextMT ==
    \/ \E t \in Threads, parent \in Inos, name \in MTNames : MTLookup(t, parent, name)
    \/ \E t \in Threads : MTReply(t)
    \/ \E t \in Threads, forgets \in ForgetLists : MTForgetBegin(t, forgets)
    \/ \E t \in Threads : MTFetchSub(t)
    \/ \E t \in Threads : MTRemove(t)
    \/ \E t \in Threads : MTFree(t)
    \/ \E t \in Threads : MTAbort(t)
    \/ \E t \in Threads, parent \in Inos : MTLookupAbort(t, parent)

SpecMT == InitMT /\ [][NextMT]_vars

(***************************************************************************)
(* SpecMain: the helper from the entry of main() to its exit, one action   *)
(* per step of the set-up; the request handlers run inside                 *)
(* fuse_session_loop_mt, which here hands them one request at a time.      *)
(***************************************************************************)
\* The position after the digits of s from position k on.
RECURSIVE DigitsEnd(_, _)
DigitsEnd(s, k) ==
    IF k <= Len(s) /\ s[k] \in {"0", "1", "2", "3", "4", "5", "6", "7", "8", "9"}
    THEN DigitsEnd(s, k + 1)
    ELSE k

\* The number written by the digits s[1 .. k].
RECURSIVE DigitsValue(_, _)
DigitsValue(s, k) ==
    IF k = 0 THEN 0
    ELSE 10 * DigitsValue(s, k - 1)
            + (CHOOSE d \in 0 .. 9 : ToString(d) = s[k])

\* strtod(argv[1], &endptr) with the result stored in an int, on strings of
\* digits, "." and letters: the position endptr points to (1 when nothing
\* was converted, Len + 1 at the terminating NUL) and the value, truncated.
strtod(s) ==
    LET i == DigitsEnd(s, 1)
        j == IF i <= Len(s) /\ s[i] = "." THEN DigitsEnd(s, i + 1) ELSE i
    IN  IF i = 1 /\ j <= i + 1
        THEN [endptr |-> 1, value |-> 0]
        ELSE [endptr |-> j, value |-> DigitsValue(s, i - 1)]

\* What argv[1] may be.
PidStrings ==
    {<<"7">>, <<"4", "2">>, <<>>, <<"x">>, <<"7", "x">>, <<"7", ".", "5">>,
     <<"7", ".">>, <<".">>, <<".", "5">>}

\* The exit of main with `status`; `failed` names the step that failed.
MainReturn(h, status, failed) ==
    [h EXCEPT !.pc = "exited", !.status = status, !.failed = failed]

\* fuse_session_remove_chan, fuse_session_destroy, fuse_unmount, return 0.
MainTeardown(h, failed) ==
    MainReturn([h EXCEPT !.session = FALSE, !.mounted = FALSE], 0, failed)

\* What the steps of main leave alone.
MainFrame ==
    /\ UNCHANGED <<heap, inodes, nlookup, dcache, fds, dirh, reply, thr, crashed>>
    /\ UNCHANGED supVars

\* main: the test of argc and the conversion of argv[1].
MainArgs(argc, arg1) ==
    /\ helper.pc = "start"
    /\ helper' =
          IF argc # 4 THEN MainReturn(helper, 1, "usage")
          ELSE LET r == strtod(arg1)
               IN  IF r.endptr = 1 \/ r.endptr <= Len(arg1)
                   THEN MainReturn(helper, 1, "pid")
                   ELSE [helper EXCEPT !.pc = "open", !.container_pid = r.value]
    /\ MainFrame

\* main: source_fd = open(source_path, O_PATH).
MainOpenSource(opened) ==
    /\ helper.pc = "open"
    /\ helper' =
          IF ~opened THEN MainReturn(helper, 1, "open")
          ELSE [helper EXCEPT !.pc = "mount", !.source_fd = 3, !.source_ns = helper.ns]
    /\ MainFrame

\* main: fuse_mount(mount_path, &args).
MainMount(mounted) ==
    /\ helper.pc = "mount"
    /\ helper' =
          IF ~mounted THEN MainReturn(helper, 1, "mount")
          ELSE [helper EXCEPT !.pc = "session", !.mounted = TRUE]
    /\ MainFrame

\* main: fuse_lowlevel_new, fuse_set_signal_handlers, the inode table, the
\* root inode and fuse_session_add_chan.
MainSession(created, handlers_set) ==
    /\ helper.pc = "session"
    /\ helper' =
          IF ~created THEN MainReturn(helper, 1, "session")
          ELSE IF ~handlers_set
          THEN MainReturn([helper EXCEPT !.session = TRUE], 1, "signals")
          ELSE [helper EXCEPT !.pc = "setns", !.session = TRUE]
    /\ MainFrame

\* A variant that runs the loop whatever enter_namespace returns.
MainEnterNamespace_anyway(entered) ==
    /\ helper.pc = "setns"
    /\ helper' = [helper EXCEPT !.pc = "loop", !.looped = TRUE,
                                !.ns = IF entered THEN "container" ELSE @]
    /\ MainFrame

\* main: enter_namespace(ns_path), which opens the namespace and calls
\* setns; when it fails main goes on to the tear-down and returns.
MainEnterNamespace(entered) ==
    /\ helper.pc = "setns"
    /\ helper' =
          IF ~entered THEN MainTeardown(helper, "setns")
          ELSE [helper EXCEPT !.pc = "loop", !.ns = "container", !.looped = TRUE]
    /\ MainFrame

\* main: fuse_session_loop_mt returns, the filesystem having been unmounted
\* or a signal caught; the tear-down follows.
MainLoopDone ==
    /\ helper.pc = "loop"
    /\ helper' = MainTeardown(helper, "")
    /\ MainFrame

InitMain ==
    /\ helper = NotStarted
    /\ heap = [a \in Addrs |-> ZeroCell]
    /\ inodes = {}
    /\ nlookup = [a \in Addrs |-> 0]
    /\ dcache = {}
    /\ fds = {}
    /\ dirh = NoDirs
    /\ reply = NoReply
    /\ thr = <<>>
    /\ crashed = FALSE
    /\ SupIdle
    /\ trigger = "unobserved"

NextMain ==
    \/ \E argc \in 1 .. 5, arg1 \in PidStrings : MainArgs(argc, arg1)
    \/ \E opened \in BOOLEAN : MainOpenSource(opened)
    \/ \E mounted \in BOOLEAN : MainMount(mounted)
    \/ \E created \in BOOLEAN, handlers_set \in BOOLEAN :
          MainSession(created, handlers_set)
    \/ \E entered \in BOOLEAN : MainEnterNamespace(entered)
    \/ MainLoopDone
    \/ helper.pc = "loop" /\ Next

SpecMain == InitMain /\ [][NextMain]_vars

(***************************************************************************)
(* SpecSup: the supervisor.  Its main loop runs one callback at a time, so  *)
(* each action is one callback run to its end: a Start or Stop method call, *)
(* the exit of a podman start/stop subprocess, the delivery of a task that  *)
(* returned inside the call that created it, a change under the socket      *)
(* monitor, and the exit of podman ps with the reconciliation pass it       *)
(* feeds.  The environment root is new when the supervisor starts, and     *)
(* fusermount -u and the start of the ENVFS helper succeed.  The ids of    *)
(* the containers are not part of the state.                               *)
(***************************************************************************)
\* A variant of get_container_by_name that falls back to some entry of the
\* table.
get_container_by_name_any(tbl, name) ==
    IF tbl[name] # 0 \/ \A n \in DOMAIN tbl : tbl[n] = 0 THEN tbl[name]
    ELSE tbl[CHOOSE n \in DOMAIN tbl : tbl[n] # 0]

\* get_container_by_name: g_hash_table_lookup(impl->toolboxes, name).
get_container_by_name(tbl, name) == tbl[name]

\* A variant of check_running without the test of the marker.
check_running_nomarker(ps, spawned) == [ps |-> spawned, spawn |-> spawned]

\* check_running: the new value of impl->container_ps_subprocess and whether
\* a `podman ps` was spawned; `spawned` tells whether g_subprocess_new
\* succeeds.
check_running(ps, spawned) ==
    IF ps THEN [ps |-> ps, spawn |-> FALSE] ELSE [ps |-> spawned, spawn |-> spawned]

\* A call of check_running by the callback that is running.
CheckRunning ==
    \E spawned \in BOOLEAN :
        LET r == check_running(container_ps_subprocess, spawned)
        IN  /\ container_ps_subprocess' = r.ps
            /\ ps_procs' = IF r.spawn THEN ps_procs + 1 ELSE ps_procs
            /\ trigger' = IF trigger = "unobserved" THEN trigger
                          ELSE IF r.spawn THEN "served" ELSE "dropped"

\* A variant of toolbox_container_start_async that spawns whenever pid is 0.
toolbox_container_start_async_nocoalesce(toolbox, task, spawned) ==
    IF toolbox.pid # 0
    THEN [toolbox |-> toolbox, spawn |-> FALSE, st |-> "returned_ok"]
    ELSE IF ~spawned
    THEN [toolbox |-> toolbox, spawn |-> FALSE, st |-> "returned_err"]
    ELSE [toolbox |-> [toolbox EXCEPT !.pending_start_tasks = <<task>> \o @],
          spawn |-> TRUE, st |-> "waiting"]

\* toolbox_container_start_async: the object after the call, whether a
\* `podman start` was spawned, and the state of the task.
toolbox_container_start_async(toolbox, task, spawned) ==
    IF toolbox.pid # 0
    THEN [toolbox |-> toolbox, spawn |-> FALSE, st |-> "returned_ok"]
    ELSE IF toolbox.pending_start_tasks # <<>>
    THEN [toolbox |-> [toolbox EXCEPT !.pending_start_tasks = <<task>> \o @],
          spawn |-> FALSE, st |-> "waiting"]
    ELSE IF ~spawned
    THEN [toolbox |-> toolbox, spawn |-> FALSE, st |-> "returned_err"]
    ELSE [toolbox |-> [toolbox EXCEPT !.pending_start_tasks = <<task>> \o @],
          spawn |-> TRUE, st |-> "waiting"]

\* A variant of toolbox_container_stop_async without the test of the pid.
toolbox_container_stop_async_nopid(toolbox, task, spawned) ==
    IF toolbox.pending_stop_tasks # <<>>
    THEN [toolbox |-> [toolbox EXCEPT !.pending_stop_tasks = <<task>> \o @],
          spawn |-> FALSE, st |-> "waiting"]
    ELSE IF ~spawned
    THEN [toolbox |-> toolbox, spawn |-> FALSE, st |-> "returned_err"]
    ELSE [toolbox |-> [toolbox EXCEPT !.pending_stop_tasks = <<task>> \o @],
          spawn |-> TRUE, st |-> "waiting"]

toolbox_container_stop_async(toolbox, task, spawned) ==
    IF toolbox.pid = 0
    THEN [toolbox |-> toolbox, spawn |-> FALSE, st |-> "returned_ok"]
    ELSE IF toolbox.pending_stop_tasks # <<>>
    THEN [toolbox |-> [toolbox EXCEPT !.pending_stop_tasks = <<task>> \o @],
          spawn |-> FALSE, st |-> "waiting"]
    ELSE IF ~spawned
    THEN [toolbox |-> toolbox, spawn |-> FALSE, st |-> "returned_err"]
    ELSE [toolbox |-> [toolbox EXCEPT !.pending_stop_tasks = <<task>> \o @],
          spawn |-> TRUE, st |-> "waiting"]

\* The invocations not yet answered.
Unanswered == {i \in InvIds : invocations[i].st \in {"waiting", "returned_ok", "returned_err"}}

\* The invocations the next callback finds: the answered ones are gone.
Outstanding == [i \in InvIds |-> IF i \in Unanswered THEN invocations[i] ELSE NoInvocation]

\* The slot a new invocation takes.
NewInvocation == CHOOSE i \in InvIds \ Unanswered : \A j \in InvIds \ Unanswered : i <= j

\* The slots of objs that hold no object: never used, or out of the table
\* with no task left that refers to them.
Unreferenced(tbl, ob, pr, o) ==
    /\ \A n \in DOMAIN tbl : tbl[n] # o
    /\ ob[o].pending_start_tasks = <<>>
    /\ ob[o].pending_stop_tasks = <<>>
    /\ pr[o] = NoProcs

\* The objects after the slots nothing refers to are given back.
Collect(tbl, ob, pr) ==
    [o \in DOMAIN ob |-> IF Unreferenced(tbl, ob, pr, o) THEN NoObj ELSE ob[o]]

\* on_start.
Start(name) ==
    /\ Unanswered # InvIds
    /\ LET inv == NewInvocation
           o == get_container_by_name(toolboxes, name)
       IN  IF o = 0
           THEN /\ invocations' = [Outstanding EXCEPT ![inv] =
                       [verb |-> "start", name |-> name, obj |-> 0, st |-> "invalid"]]
                /\ UNCHANGED <<objs, procs>>
           ELSE \E spawned \in BOOLEAN :
                LET r == toolbox_container_start_async(objs[o], inv, spawned)
                IN  /\ objs' = [objs EXCEPT ![o] = r.toolbox]
                    /\ procs' = IF r.spawn
                                THEN [procs EXCEPT ![o].start = @ + 1]
                                ELSE procs
                    /\ invocations' = [Outstanding EXCEPT ![inv] =
                           [verb |-> "start", name |-> name, obj |-> o, st |-> r.st]]
    /\ UNCHANGED <<toolboxes, container_ps_subprocess, ps_procs, trigger>>
    /\ UNCHANGED envVars
    /\ NoPass

\* on_stop.
Stop(name) ==
    /\ Unanswered # InvIds
    /\ LET inv == NewInvocation
           o == get_container_by_name(toolboxes, name)
       IN  IF o = 0
           THEN /\ invocations' = [Outstanding EXCEPT ![inv] =
                       [verb |-> "stop", name |-> name, obj |-> 0, st |-> "invalid"]]
                /\ UNCHANGED <<objs, procs>>
           ELSE \E spawned \in BOOLEAN :
                LET r == toolbox_container_stop_async(objs[o], inv, spawned)
                IN  /\ objs' = [objs EXCEPT ![o] = r.toolbox]
                    /\ procs' = IF r.spawn
                                THEN [procs EXCEPT ![o].stop = @ + 1]
                                ELSE procs
                    /\ invocations' = [Outstanding EXCEPT ![inv] =
                           [verb |-> "stop", name |-> name, obj |-> o, st |-> r.st]]
    /\ UNCHANGED <<toolboxes, container_ps_subprocess, ps_procs, trigger>>
    /\ UNCHANGED envVars
    /\ NoPass

\* A variant of finish_tasks that starts at the second element of the list.
finish_tasks_skiphead(invs, tasks, ok) ==
    [i \in InvIds |->
        IF \E k \in 2 .. Len(tasks) : tasks[k] = i
        THEN [NoInvocation EXCEPT !.st = IF ok THEN "ok" ELSE "err"]
        ELSE invs[i]]

\* finish_tasks with on_start_done / on_stop_done run for each task.
finish_tasks(invs, tasks, ok) ==
    [i \in InvIds |->
        IF \E k \in 1 .. Len(tasks) : tasks[k] = i
        THEN [NoInvocation EXCEPT !.st = IF ok THEN "ok" ELSE "err"]
        ELSE invs[i]]

\* on_start_process_done: `podman start` of object o exited.
StartProcessDone(o, ok) ==
    /\ procs[o].start > 0
    /\ LET tasks == objs[o].pending_start_tasks
           ob == [objs EXCEPT ![o].pending_start_tasks = <<>>]
           pr == [procs EXCEPT ![o].start = @ - 1]
       IN  /\ procs' = pr
           /\ objs' = Collect(toolboxes, ob, pr)
           /\ invocations' = finish_tasks(Outstanding, tasks, ok)
           /\ IF ok /\ tasks # <<>>
              THEN CheckRunning
              ELSE UNCHANGED <<container_ps_subprocess, ps_procs, trigger>>
    /\ UNCHANGED toolboxes
    /\ UNCHANGED envVars
    /\ NoPass

\* on_stop_process_done: `podman stop` of object o exited.
StopProcessDone(o, ok) ==
    /\ procs[o].stop > 0
    /\ LET tasks == objs[o].pending_stop_tasks
           ob == [objs EXCEPT ![o].pending_stop_tasks = <<>>]
           pr == [procs EXCEPT ![o].stop = @ - 1]
       IN  /\ procs' = pr
           /\ objs' = Collect(toolboxes, ob, pr)
           /\ invocations' = finish_tasks(Outstanding, tasks, ok)
           /\ IF ok /\ tasks # <<>>
              THEN CheckRunning
              ELSE UNCHANGED <<container_ps_subprocess, ps_procs, trigger>>
    /\ UNCHANGED toolboxes
    /\ UNCHANGED envVars
    /\ NoPass

\* on_start_done / on_stop_done for a task that returned inside
\* toolbox_container_start_async / toolbox_container_stop_async.
TaskReturned(inv) ==
    /\ invocations[inv].st \in {"returned_ok", "returned_err"}
    /\ IF invocations[inv].st = "returned_ok"
       THEN /\ invocations' = [Outstanding EXCEPT ![inv] =
                                    [NoInvocation EXCEPT !.st = "ok"]]
            /\ CheckRunning
       ELSE /\ invocations' = [Outstanding EXCEPT ![inv] =
                                    [NoInvocation EXCEPT !.st = "err"]]
            /\ UNCHANGED <<container_ps_subprocess, ps_procs, trigger>>
    /\ UNCHANGED <<toolboxes, objs, procs>>
    /\ UNCHANGED envVars
    /\ NoPass

\* on_socket_monitor_changed.
SocketMonitorChanged ==
    /\ CheckRunning
    /\ invocations' = Outstanding
    /\ UNCHANGED <<toolboxes, objs, procs>>
    /\ UNCHANGED envVars
    /\ NoPass

\* toolbox_container_mount: the object afterwards and the lines printed.
\* `spawned` tells whether the ENVFS helper starts; fuse_subprocess records
\* the pid the helper was started for.
toolbox_container_mount(toolbox, spawned) ==
    IF toolbox.fuse_subprocess # 0 \/ toolbox.pid = 0
    THEN [toolbox |-> toolbox, out |-> {Msg("assertion failed", toolbox.name)}]
    ELSE IF spawned
    THEN [toolbox |-> [toolbox EXCEPT !.fuse_subprocess = toolbox.pid],
          out |-> {Msg("Mounted", toolbox.name)}]
    ELSE [toolbox |-> toolbox, out |-> {Msg("Failed to mount", toolbox.name)}]

\* toolbox_container_unmount; `unmounted` tells whether fusermount -u
\* succeeds (g_subprocess_wait without a cancellable then returns TRUE).
toolbox_container_unmount(toolbox, unmounted) ==
    IF toolbox.fuse_subprocess = 0
    THEN [toolbox |-> toolbox, out |-> {Msg("assertion failed", toolbox.name)}]
    ELSE IF unmounted
    THEN [toolbox |-> [toolbox EXCEPT !.fuse_subprocess = 0],
          out |-> {Msg("Unmounted", toolbox.name)}]
    ELSE [toolbox |-> toolbox, out |-> {Msg("Failed to unmount", toolbox.name)}]

\* The ids podman ps reports a container under.
Ids == {"c0", "c1"}

\* toolbox_container_update, the id: replaced when strcmp tells it differs.
UpdateId(toolbox, info) ==
    IF info.id # toolbox.id
    THEN [toolbox |-> [toolbox EXCEPT !.id = info.id],
          out |-> {Msg("Update ID", toolbox.name)}]
    ELSE [toolbox |-> toolbox, out |-> {}]

\* A variant of toolbox_container_update that never unmounts.
toolbox_container_update_nounmount(toolbox, info, io) ==
    LET i == UpdateId(toolbox, info)
    IN  IF info.pid = i.toolbox.pid THEN i
        ELSE LET t2 == [i.toolbox EXCEPT !.pid = info.pid]
                 m == IF t2.pid # 0 /\ t2.fuse_subprocess = 0
                      THEN toolbox_container_mount(t2, io.spawned)
                      ELSE [toolbox |-> t2, out |-> {}]
             IN  [toolbox |-> m.toolbox, out |-> i.out \cup m.out]

\* A variant of toolbox_container_update without the comparison of the pids.
toolbox_container_update_always(toolbox, info, io) ==
    LET i == UpdateId(toolbox, info)
        u == IF i.toolbox.pid # 0
             THEN toolbox_container_unmount(i.toolbox, io.unmounted)
             ELSE i
        t2 == [u.toolbox EXCEPT !.pid = info.pid]
        m == IF t2.pid # 0
             THEN toolbox_container_mount(t2, io.spawned)
             ELSE [toolbox |-> t2, out |-> {}]
    IN  [toolbox |-> m.toolbox, out |-> i.out \cup u.out \cup m.out]

toolbox_container_update(toolbox, info, io) ==
    LET i == UpdateId(toolbox, info)
    IN  IF info.pid = i.toolbox.pid THEN i
        ELSE LET u == IF i.toolbox.pid # 0
                      THEN toolbox_container_unmount(i.toolbox, io.unmounted)
                      ELSE i
                 t2 == [u.toolbox EXCEPT !.pid = info.pid]
                 m == IF t2.pid # 0
                      THEN toolbox_container_mount(t2, io.spawned)
                      ELSE [toolbox |-> t2, out |-> {}]
             IN  [toolbox |-> m.toolbox, out |-> i.out \cup u.out \cup m.out]

toolbox_container_new(info) ==
    [NoObj EXCEPT !.name = info.name, !.id = info.id, !.pid = info.pid]

\* add_container: the object it leaves in the table and the lines printed.
add_container(info, io) ==
    IF info.pid # 0
    THEN toolbox_container_mount(toolbox_container_new(info), io.spawned)
    ELSE [toolbox |-> toolbox_container_new(info), out |-> {}]

\* remove_container of every name of `removed`: the table afterwards.
remove_container(tbl, removed) ==
    [n \in DOMAIN tbl |-> IF n \in removed THEN 0 ELSE tbl[n]]

\* The ENVFS children remove_container leaves behind: it drops the object
\* and neither unmounts nor ends the child.
Orphaned(tbl, ob, removed) == {n \in removed : ob[tbl[n]].fuse_subprocess # 0}

\* What podman ps may list: a pid for each container of some set.
Listings == UNION {[S -> Pids] : S \in SUBSET Containers}

IOOutcomes == [unmounted : BOOLEAN, spawned : BOOLEAN]

\* fusermount -u and the start of the ENVFS helper both succeed.
IOSuccess == {[unmounted |-> TRUE, spawned |-> TRUE]}

FreeObjs(ob) == {o \in DOMAIN ob : ob[o].name = ""}

\* The names of new_containers that have no object yet.
ToAdd(tbl, new_containers) == {n \in DOMAIN new_containers : tbl[n] = 0}

\* The slots add_container's g_object_new takes, one per name to add.
NewObjs(tbl, ob, new_containers) ==
    CHOOSE f \in [ToAdd(tbl, new_containers) -> FreeObjs(ob)] :
        \A m, n \in ToAdd(tbl, new_containers) : m # n => f[m] # f[n]

\* The table entries the pass finds to be absent from new_containers.
Absent(tbl, new_containers) ==
    {n \in DOMAIN tbl : tbl[n] # 0 /\ n \notin DOMAIN new_containers}

\* The entries the removal loop of refresh_containers removes.  The loop
\* calls g_hash_table_remove on the table it iterates over; after the first
\* removal g_hash_table_iter_next either stops the loop or goes on over a
\* table that may have been resized.
Removals(absent) == IF absent = {} THEN {{}} ELSE (SUBSET absent) \ {{}}

\* refresh_containers, the loop over new_containers: table, objects and the
\* lines printed.  The passes list every container under one id.
AddOrUpdate(tbl, ob, new_containers, io) ==
    LET add == ToAdd(tbl, new_containers)
        fresh == NewObjs(tbl, ob, new_containers)
        info(n) == [name |-> n, id |-> "c0", pid |-> new_containers[n]]
        slot(n) == IF n \in add THEN fresh[n] ELSE tbl[n]
        res == [n \in DOMAIN new_containers |->
                   IF n \in add
                   THEN add_container(info(n), io[n])
                   ELSE toolbox_container_update(ob[tbl[n]], info(n), io[n])]
    IN  [toolboxes |-> [n \in DOMAIN tbl |-> IF n \in add THEN fresh[n] ELSE tbl[n]],
         objs |-> [o \in DOMAIN ob |->
                     IF \E n \in DOMAIN new_containers : slot(n) = o
                     THEN res[CHOOSE n \in DOMAIN new_containers : slot(n) = o].toolbox
                     ELSE ob[o]],
         out |-> UNION {res[n].out : n \in DOMAIN new_containers}]

(***************************************************************************)
(* Names as C strings.  A name is known to the model by its characters,    *)
(* so that g_str_has_prefix and strcmp are computed as the library does.   *)
(***************************************************************************)
Chars(name) ==
    CASE name = "fedora-toolbox-a" ->
            <<102, 101, 100, 111, 114, 97, 45, 116, 111, 111, 108, 98, 111, 120, 45, 97>>
      [] name = "fedora-toolbox-b" ->
            <<102, 101, 100, 111, 114, 97, 45, 116, 111, 111, 108, 98, 111, 120, 45, 98>>
      [] name = "fedora-toolbox" ->
            <<102, 101, 100, 111, 114, 97, 45, 116, 111, 111, 108, 98, 111, 120>>
      [] name = "work" -> <<119, 111, 114, 107>>
      [] name = "junk" -> <<106, 117, 110, 107>>
      [] name = "_default" -> <<95, 100, 101, 102, 97, 117, 108, 116>>
      [] OTHER -> <<>>

g_str_has_prefix(str, prefix) ==
    /\ Len(Chars(prefix)) <= Len(Chars(str))
    /\ SubSeq(Chars(str), 1, Len(Chars(prefix))) = Chars(prefix)

\* strcmp on the characters from position k on: negative, zero or positive.
RECURSIVE StrcmpFrom(_, _, _)
StrcmpFrom(a, b, k) ==
    IF k > Len(a) /\ k > Len(b) THEN 0
    ELSE IF k > Len(a) THEN 0 - b[k]
    ELSE IF k > Len(b) THEN a[k]
    ELSE IF a[k] # b[k] THEN a[k] - b[k]
    ELSE StrcmpFrom(a, b, k + 1)

strcmp(s1, s2) == StrcmpFrom(Chars(s1), Chars(s2), 1)

\* A NULL string.
NoLink == ""

g_strcmp0(s1, s2) ==
    IF s1 = NoLink /\ s2 = NoLink THEN 0
    ELSE IF s1 = NoLink THEN 0 - 1
    ELSE IF s2 = NoLink THEN 1
    ELSE strcmp(s1, s2)

\* The orders in which GHashTableIter may hand out the keys of a table.
Orders(S) ==
    {order \in [1 .. Cardinality(S) -> S] :
        \A i, j \in 1 .. Cardinality(S) : i # j => order[i] # order[j]}

\* A variant of the test that keeps the smaller name.
TakesDefault_less(name, new_default_link) ==
    /\ g_str_has_prefix(name, "fedora-toolbox")
    /\ (new_default_link = NoLink \/ strcmp(name, new_default_link) < 0)

\* refresh_containers: the test that makes a descriptor the new default.
TakesDefault(name, new_default_link) ==
    /\ g_str_has_prefix(name, "fedora-toolbox")
    /\ (new_default_link = NoLink \/ strcmp(name, new_default_link) > 0)

\* new_default_link after the first k descriptors of the iteration.
RECURSIVE SelectDefault(_, _)
SelectDefault(order, k) ==
    IF k = 0 THEN NoLink
    ELSE LET prev == SelectDefault(order, k - 1)
         IN  IF TakesDefault(order[k], prev) THEN order[k] ELSE prev

\* new_default_link at the end of the loop, for every order of iteration.
NewDefaultLinks(new_containers) ==
    {SelectDefault(order, Len(order)) : order \in Orders(DOMAIN new_containers)}

(***************************************************************************)
(* The environment root.  The outcome of an operation is decided by the    *)
(* directory's state: a name can be created where nothing is, and          *)
(* everything can be deleted but a directory that a filesystem is mounted  *)
(* on.  Besides, the operations of `failing` fail (EACCES, EIO, ...).        *)
(***************************************************************************)
g_file_delete(root, name, busy, failing) ==
    IF \/ root[name].type = "none"
       \/ root[name].type = "directory" /\ name \in busy
       \/ <<"delete", name>> \in failing
    THEN [ok |-> FALSE, file |-> root[name]]
    ELSE [ok |-> TRUE, file |-> NoFile]

g_file_make_directory(root, name, failing) ==
    IF root[name].type # "none" \/ <<"mkdir", name>> \in failing
    THEN [ok |-> FALSE, file |-> root[name]]
    ELSE [ok |-> TRUE, file |-> File("directory", "")]

g_file_make_symbolic_link(root, name, target, failing) ==
    IF root[name].type # "none" \/ <<"symlink", name>> \in failing
    THEN [ok |-> FALSE, file |-> root[name]]
    ELSE [ok |-> TRUE, file |-> File("symlink", target)]

\* The directories a filesystem is mounted on: those of the objects of the
\* table that have an ENVFS child and those of the orphans.
BusyDirs(tbl, ob, orph) ==
    orph \cup {n \in DOMAIN tbl : tbl[n] # 0 /\ ob[tbl[n]].fuse_subprocess # 0}

\* refresh_containers, the enumeration of the environment root: what the
\* loop over g_file_enumerator_next_file sees.  When
\* g_file_enumerate_children failed the enumerator is NULL and
\* g_file_enumerator_next_file returns NULL at once.
Enumerated(root, enumerated) ==
    [n \in DOMAIN root |-> IF enumerated THEN root[n] ELSE NoFile]

old_dirs(seen) == {n \in DOMAIN seen : seen[n].type = "directory"}

old_extra(seen) ==
    {n \in DOMAIN seen :
        \/ seen[n].type = "regular"
        \/ seen[n].type = "symlink" /\ n # DefaultLink}

old_default_link(seen) ==
    IF seen[DefaultLink].type = "symlink" THEN seen[DefaultLink].target ELSE NoLink

\* refresh_containers, the loop over old_extra: the root afterwards.
DeleteExtra(root, extra, failing) ==
    [n \in DOMAIN root |->
        IF n \in extra THEN g_file_delete(root, n, {}, failing).file ELSE root[n]]

\* refresh_containers, g_file_make_directory for the names of the list that
\* were not among the directories enumerated.
MakeDirectories(root, dirs, new_containers, failing) ==
    [n \in DOMAIN root |->
        IF n \in DOMAIN new_containers \ dirs
        THEN g_file_make_directory(root, n, failing).file ELSE root[n]]

\* refresh_containers, the loop over old_dirs.
DeleteOldDirs(root, dirs, new_containers, busy, failing) ==
    [n \in DOMAIN root |->
        IF n \in dirs \ DOMAIN new_containers
        THEN g_file_delete(root, n, busy, failing).file ELSE root[n]]

\* refresh_containers, the default link.
UpdateDefaultLink(root, old, new, failing) ==
    IF g_strcmp0(new, old) = 0 THEN root
    ELSE LET r1 == IF old # NoLink
                   THEN [root EXCEPT ![DefaultLink] =
                            g_file_delete(root, DefaultLink, {}, failing).file]
                   ELSE root
         IN  IF new # NoLink
             THEN [r1 EXCEPT ![DefaultLink] =
                      g_file_make_symbolic_link(r1, DefaultLink, new, failing).file]
             ELSE r1

\* refresh_containers: the environment root when the loop over
\* new_containers calls add_container or toolbox_container_update for a
\* name.  The old extra files are deleted by then;
\* g_file_make_directory for the name comes after the call.
MountPoints(root, fsio) ==
    DeleteExtra(root, old_extra(Enumerated(root, fsio.enumerated)), fsio.failing)

\* A variant of refresh_containers that returns at the first loop in which
\* an operation failed.
RefreshEnvroot_abort(root, new_containers, new_default_link, busy, fsio) ==
    LET seen == Enumerated(root, fsio.enumerated)
        dirs == old_dirs(seen)
        r1 == DeleteExtra(root, old_extra(seen), fsio.failing)
        r2 == MakeDirectories(r1, dirs, new_containers, fsio.failing)
        r3 == DeleteOldDirs(r2, dirs, new_containers, busy, fsio.failing)
    IN  IF r1 # DeleteExtra(root, old_extra(seen), {}) THEN r1
        ELSE IF r2 # MakeDirectories(r1, dirs, new_containers, {}) THEN r2
        ELSE IF r3 # DeleteOldDirs(r2, dirs, new_containers, busy, {}) THEN r3
        ELSE UpdateDefaultLink(r3, old_default_link(seen), new_default_link,
                               fsio.failing)

\* refresh_containers on the environment root: what it does there from the
\* enumeration to the default link.  `busy` are the directories a
\* filesystem is mounted on when the old directories are deleted.
RefreshEnvroot(root, new_containers, new_default_link, busy, fsio) ==
    LET seen == Enumerated(root, fsio.enumerated)
        dirs == old_dirs(seen)
        r1 == DeleteExtra(root, old_extra(seen), fsio.failing)
        r2 == MakeDirectories(r1, dirs, new_containers, fsio.failing)
        r3 == DeleteOldDirs(r2, dirs, new_containers, busy, fsio.failing)
    IN  UpdateDefaultLink(r3, old_default_link(seen), new_default_link,
                          fsio.failing)

\* A variant of the returns of on_ps_process_done on a failed listing that
\* empties the table.
ListingFailed_emptied ==
    /\ toolboxes' = [n \in DOMAIN toolboxes |-> 0]
    /\ UNCHANGED <<objs, envroot, orphans, runtime_list, refresh_io>>
    /\ stderr' = {Msg("podman ps failed", "")}
    /\ refreshed' = "no"

\* on_ps_process_done when g_subprocess_communicate_utf8_finish fails, the
\* exit status is not 0 or json_from_string fails: a line is printed and
\* the callback returns before refresh_containers.
ListingFailed ==
    /\ UNCHANGED <<toolboxes, objs, envroot, orphans, runtime_list, refresh_io>>
    /\ stderr' = {Msg("podman ps failed", "")}
    /\ refreshed' = "no"

\* on_ps_process_done: podman ps exited; `ok` tells whether its output was
\* read and parsed, new_containers is what it listed, `outcomes` is what
\* fusermount -u and the start of the ENVFS helper may come to, and `fsio`
\* what the enumeration and the file operations in the environment root
\* come to.
PsProcessDone(ok, new_containers, outcomes, fsio) ==
    /\ ps_procs > 0
    /\ ps_procs' = ps_procs - 1
    /\ container_ps_subprocess' = FALSE
    /\ trigger' = trigger
    /\ IF ~ok
       THEN ListingFailed
       ELSE /\ DOMAIN new_containers \subseteq DOMAIN toolboxes
            /\ Cardinality(ToAdd(toolboxes, new_containers))
                  <= Cardinality(FreeObjs(objs))
            /\ \E st \in {AddOrUpdate(toolboxes, objs, new_containers, io) :
                               io \in [DOMAIN new_containers -> outcomes]} :
               \E removed \in Removals(Absent(st.toolboxes, new_containers)) :
               \E new_default_link \in NewDefaultLinks(new_containers) :
                  LET tbl == remove_container(st.toolboxes, removed)
                      orph == orphans \cup Orphaned(st.toolboxes, st.objs, removed)
                      busy == BusyDirs(tbl, st.objs, orph) \cup daemon.stale
                      fs == RefreshEnvroot(envroot, new_containers, new_default_link,
                                           busy, fsio)
                  IN  /\ toolboxes' = tbl
                      /\ objs' = Collect(tbl, st.objs, procs)
                      /\ orphans' = orph
                      /\ envroot' = fs
                      /\ refresh_io' =
                            [io |-> fsio,
                             ideal |-> RefreshEnvroot(envroot, new_containers,
                                                      new_default_link, busy, FsOk)]
                      /\ stderr' = st.out
                      /\ runtime_list' = [valid |-> TRUE, list |-> new_containers]
                      /\ refreshed' = IF runtime_list.valid
                                         /\ runtime_list.list = new_containers
                                      THEN "again" ELSE "yes"
    /\ invocations' = Outstanding
    /\ UNCHANGED <<procs, daemon>>
    /\ UNCHANGED envVars

NextSup ==
    \/ \E name \in Containers : Start(name)
    \/ \E name \in Containers : Stop(name)
    \/ \E o \in ObjIds, ok \in BOOLEAN : StartProcessDone(o, ok)
    \/ \E o \in ObjIds, ok \in BOOLEAN : StopProcessDone(o, ok)
    \/ \E inv \in InvIds : TaskReturned(inv)
    \/ SocketMonitorChanged
    \/ \E ok \in BOOLEAN, new_containers \in Listings :
          PsProcessDone(ok, new_containers, IOSuccess, FsOk)

SpecSup == Init /\ [][NextSup]_vars

(***************************************************************************)
(* SpecPass: the reconciliation passes alone, on an environment root that  *)
(* earlier runs of the supervisor and other programs have left in any      *)
(* state, with containers that come back under another pid and with        *)
(* fusermount -u and the start of the ENVFS helper failing at will.        *)
(***************************************************************************)
PassNames == {"fedora-toolbox-a", "fedora-toolbox-b", "work"}

\* What podman ps may list: the containers under pids that change.
PassListings == UNION {[S -> {0, 7, 8}] : S \in SUBSET PassNames}

\* What toolbox_manager_impl_start may find in the environment root: under
\* a name a directory or a file, and under _default also a symbolic link.
PriorContents ==
    {root \in [PassNames \cup {DefaultLink, "junk"} ->
                  {File(t, "") : t \in {"none", "directory", "regular"}}
                      \cup {File("symlink", t) : t \in PassNames}] :
        \A n \in DOMAIN root : root[n].type = "symlink" => n = DefaultLink}

InitPass ==
    /\ EnvInit
    /\ toolboxes = [n \in PassNames |-> 0]
    /\ objs = [o \in 1 .. MaxPassObjs |-> NoObj]
    /\ procs = [o \in 1 .. MaxPassObjs |-> NoProcs]
    /\ invocations = [i \in InvIds |-> NoInvocation]
    /\ container_ps_subprocess = FALSE
    /\ ps_procs = 0
    /\ trigger = "unobserved"
    /\ envroot \in PriorContents
    /\ orphans = {}
    /\ stderr = {}
    /\ runtime_list = NoList
    /\ refreshed = "no"
    /\ refresh_io = [io |-> FsOk, ideal |-> envroot]
    /\ daemon = Running

NextPass ==
    \/ SocketMonitorChanged
    \/ \E ok \in BOOLEAN, new_containers \in PassListings :
          PsProcessDone(ok, new_containers, IOOutcomes, FsOk)

SpecPass == InitPass /\ [][NextPass]_vars

(***************************************************************************)
(* SpecRetry: the reconciliation passes alone, with an environment root    *)
(* that cannot be enumerated or an operation in it that fails in one pass  *)
(* and succeeds in the next.  fusermount -u and the start of the ENVFS     *)
(* helper succeed.                                                         *)
(***************************************************************************)
RetryNames == {"fedora-toolbox-a", "work"}

\* What a pass may meet in the environment root: nothing going wrong,
\* g_file_enumerate_children failing, or one operation failing.
FsOutcomes ==
    {FsOk, [enumerated |-> FALSE, failing |-> {}]}
        \cup {[enumerated |-> TRUE, failing |-> {f}] :
                 f \in ({"delete"} \X (RetryNames \cup {DefaultLink, "junk"}))
                          \cup ({"mkdir"} \X RetryNames)
                          \cup {<<"symlink", DefaultLink>>}}

InitRetry ==
    /\ InitPass
    /\ envroot["fedora-toolbox-b"] = NoFile
    /\ envroot["junk"].type # "directory"

NextRetry ==
    \/ SocketMonitorChanged
    \/ \E ok \in BOOLEAN, fsio \in FsOutcomes :
       \E new_containers \in UNION {[S -> {0, 7}] : S \in SUBSET RetryNames} :
          PsProcessDone(ok, new_containers, IOSuccess, fsio)

SpecRetry == InitRetry /\ [][NextRetry]_vars

(***************************************************************************)
(* SpecLife: the supervisor process from main() to its exit: the bus is    *)
(* acquired, toolbox_manager_impl_start sweeps the mounts an earlier       *)
(* instance left and issues the first listing, the callbacks run, and      *)
(* after g_main_loop_quit toolbox_manager_impl_stop unmounts.  fusermount  *)
(* -u and the start of the ENVFS helper fail at will.                      *)
(***************************************************************************)
\* main() in g_main_loop_run before on_bus_acquired; `stale` are the names
\* an earlier instance left an ENVFS mount on.
NotAcquired(stale) ==
    [phase |-> "new", stale |-> stale, sweeps |-> 0, swept |-> {},
     swept_own |-> {}]

\* The phases in which the manager object exists and the main loop runs.
Exported == {"running", "failed"}

\* toolbox_cleanup_old_mounts: of `mounts`, the mounts whose parent is the
\* environment root, the ones still mounted afterwards.  `left` are the
\* names fusermount -u fails for.
toolbox_cleanup_old_mounts(mounts, left) == mounts \cap left

\* A variant of toolbox_manager_impl_start that goes on when the
\* environment root cannot be created.
toolbox_manager_impl_start_noreturn(d, own, ps, created, left, spawned) ==
    LET rest == toolbox_cleanup_old_mounts(d.stale \cup own, left)
        r == check_running(ps, spawned)
    IN  [daemon |-> [phase |-> IF created THEN "running" ELSE "failed",
                     stale |-> d.stale \cap rest,
                     sweeps |-> d.sweeps + 1,
                     swept |-> d.swept \cup (d.stale \ rest),
                     swept_own |-> d.swept_own \cup (own \ rest)],
         ps |-> r.ps, spawn |-> r.spawn]

\* toolbox_manager_impl_start.  `d` is the process, `own` the names this
\* instance has an ENVFS mount on, `ps` impl->container_ps_subprocess,
\* `created` whether g_file_make_directory_with_parents succeeded or found
\* the directory.  Afterwards: the process, the marker, and whether podman
\* ps was spawned.
toolbox_manager_impl_start(d, own, ps, created, left, spawned) ==
    IF ~created
    THEN [daemon |-> [d EXCEPT !.phase = "failed"], ps |-> ps, spawn |-> FALSE]
    ELSE LET rest == toolbox_cleanup_old_mounts(d.stale \cup own, left)
             r == check_running(ps, spawned)
         IN  [daemon |-> [phase |-> "running",
                          stale |-> d.stale \cap rest,
                          sweeps |-> d.sweeps + 1,
                          swept |-> d.swept \cup (d.stale \ rest),
                          swept_own |-> d.swept_own \cup (own \ rest)],
              ps |-> r.ps, spawn |-> r.spawn]

\* on_bus_acquired (main.c): the manager is made and exported, and
\* toolbox_manager_impl_start runs.  The environment root can only fail to
\* be created where there is none.
BusAcquired(created, left, spawned) ==
    /\ daemon.phase = "new"
    /\ ~created => /\ daemon.stale = {}
                   /\ \A n \in DOMAIN envroot : envroot[n] = NoFile
    /\ LET r == toolbox_manager_impl_start(
                    daemon, BusyDirs(toolboxes, objs, orphans),
                    container_ps_subprocess, created, left, spawned)
       IN  /\ daemon' = r.daemon
           /\ container_ps_subprocess' = r.ps
           /\ ps_procs' = IF r.spawn THEN ps_procs + 1 ELSE ps_procs
           /\ trigger' = IF r.spawn /\ trigger = "dropped" THEN "served" ELSE trigger
    /\ stderr' = {}
    /\ refreshed' = "no"
    /\ UNCHANGED <<toolboxes, objs, procs, invocations, envroot, orphans,
                   runtime_list, refresh_io>>
    /\ UNCHANGED envVars

\* toolbox_manager_impl_stop: the objects afterwards and the lines
\* printed.  io[n] tells whether fusermount -u succeeds for n.
toolbox_manager_impl_stop(tbl, ob, io) ==
    LET hit == {n \in DOMAIN tbl : tbl[n] # 0 /\ ob[tbl[n]].pid # 0}
        r(n) == toolbox_container_unmount(ob[tbl[n]], io[n])
    IN  [objs |-> [o \in DOMAIN ob |->
                      IF \E n \in hit : tbl[n] = o
                      THEN r(CHOOSE n \in hit : tbl[n] = o).toolbox
                      ELSE ob[o]],
         out |-> UNION {r(n).out : n \in hit}]

\* main (main.c) after g_main_loop_run has returned, with the manager that
\* on_bus_acquired made: toolbox_manager_impl_stop, then the exit.
Shutdown(io) ==
    /\ daemon.phase \in Exported
    /\ LET r == toolbox_manager_impl_stop(toolboxes, objs, io)
       IN  /\ objs' = r.objs
           /\ stderr' = r.out
    /\ daemon' = [daemon EXCEPT !.phase = "stopped"]
    /\ refreshed' = "no"
    /\ UNCHANGED <<toolboxes, procs, invocations, container_ps_subprocess,
                   ps_procs, trigger, envroot, orphans, runtime_list, refresh_io>>
    /\ UNCHANGED envVars

\* main (main.c) after g_main_loop_run has returned before the bus was
\* acquired (on_name_lost, SIGINT, SIGTERM): `manager` is NULL and
\* toolbox_manager_impl_stop reads impl->toolboxes through it.  The process
\* is killed by the fault or comes to its exit.
ShutdownNoManager ==
    /\ daemon.phase = "new"
    /\ \E phase \in {"crashed", "stopped"} :
          daemon' = [daemon EXCEPT !.phase = phase]
    /\ stderr' = {}
    /\ refreshed' = "no"
    /\ UNCHANGED <<toolboxes, objs, procs, invocations,
                   container_ps_subprocess, ps_procs, trigger, envroot, orphans,
                   runtime_list, refresh_io>>
    /\ UNCHANGED envVars

\* What the earlier instance may have left: mounts on directories of the
\* environment root.
InitLife ==
    /\ EnvInit
    /\ toolboxes = [n \in Containers |-> 0]
    /\ objs = [o \in ObjIds |-> NoObj]
    /\ procs = [o \in ObjIds |-> NoProcs]
    /\ invocations = [i \in InvIds |-> NoInvocation]
    /\ container_ps_subprocess = FALSE
    /\ ps_procs = 0
    /\ trigger = "unobserved"
    /\ envroot \in [Containers \cup {DefaultLink} ->
                       {NoFile, File("directory", "")}]
    /\ envroot[DefaultLink] = NoFile
    /\ envroot["fedora-toolbox-a"] = NoFile
    /\ orphans = {}
    /\ stderr = {}
    /\ runtime_list = NoList
    /\ refreshed = "no"
    /\ refresh_io = [io |-> FsOk, ideal |-> envroot]
    /\ \E stale \in SUBSET {n \in Containers : envroot[n].type = "directory"} :
          daemon = NotAcquired(stale)

NextLife ==
    \/ \E created \in BOOLEAN, left \in SUBSET Containers, spawned \in BOOLEAN :
          BusAcquired(created, left, spawned)
    \/ /\ daemon.phase \in Exported
       /\ Cardinality(Unanswered) < MaxLifeCalls
       /\ \E name \in Containers : Start(name)
    \/ /\ daemon.phase \in Exported
       /\ Cardinality(Unanswered) < MaxLifeCalls
       /\ \E name \in Containers : Stop(name)
    \/ daemon.phase \in Exported
          /\ \E o \in ObjIds, ok \in BOOLEAN : StartProcessDone(o, ok)
    \/ daemon.phase \in Exported
          /\ \E o \in ObjIds, ok \in BOOLEAN : StopProcessDone(o, ok)
    \/ daemon.phase \in Exported /\ \E inv \in InvIds : TaskReturned(inv)
    \/ daemon.phase = "running" /\ SocketMonitorChanged
    \/ daemon.phase \in Exported
          /\ \E ok \in BOOLEAN, new_containers \in Listings :
                PsProcessDone(ok, new_containers, IOOutcomes, FsOk)
    \/ \E io \in [Containers -> BOOLEAN] : Shutdown(io)
    \/ ShutdownNoManager

SpecLife == InitLife /\ [][NextLife]_vars

(***************************************************************************)
(* SpecFair: the supervisor's callbacks on one container, with the main    *)
(* loop dispatching what is due: a subprocess that was spawned exits and   *)
(* its callback runs, and a task that has returned has its callback run.   *)
(***************************************************************************)
FairNames == {"work"}

FairListings == UNION {[S -> Pids] : S \in SUBSET FairNames}

NextFair ==
    \/ \E name \in FairNames : Start(name)
    \/ \E name \in FairNames : Stop(name)
    \/ \E o \in ObjIds, ok \in BOOLEAN : StartProcessDone(o, ok)
    \/ \E o \in ObjIds, ok \in BOOLEAN : StopProcessDone(o, ok)
    \/ \E inv \in InvIds : TaskReturned(inv)
    \/ SocketMonitorChanged
    \/ \E ok \in BOOLEAN, new_containers \in FairListings :
          PsProcessDone(ok, new_containers, IOSuccess, FsOk)

\* g_main_loop_run: every child watch and every idle source that is ready
\* is dispatched.
Dispatch ==
    /\ \A o \in ObjIds :
          /\ WF_vars(\E ok \in BOOLEAN : StartProcessDone(o, ok))
          /\ WF_vars(\E ok \in BOOLEAN : StopProcessDone(o, ok))
    /\ \A inv \in InvIds : WF_vars(TaskReturned(inv))
    /\ WF_vars(\E ok \in BOOLEAN, new_containers \in FairListings :
                  PsProcessDone(ok, new_containers, IOSuccess, FsOk))

\* The supervisor with no trigger yet.
InitFair == EnvInit /\ SupIdle /\ trigger = "served"

SpecFair == InitFair /\ [][NextFair]_vars /\ Dispatch

(***************************************************************************)
(* SpecUpdate: toolbox_container_update alone, on an entry in any state    *)
(* the passes and the Start/Stop calls can have left it in, with any id    *)
(* and pid in the new info.  runtime_list holds the info passed.           *)
(***************************************************************************)
UpdatePids == {0, 7, 8}

InitUpdate ==
    /\ EnvInit
    /\ toolboxes = [n \in Containers |-> IF n = "work" THEN 1 ELSE 0]
    /\ \E id \in Ids, pid \in UpdatePids, fuse \in UpdatePids,
          starts \in {<<>>, <<1>>}, stops \in {<<>>, <<2>>} :
          /\ objs = [o \in ObjIds |->
                        IF o = 1
                        THEN [name |-> "work", id |-> id, pid |-> pid,
                              fuse_subprocess |-> fuse,
                              pending_start_tasks |-> starts,
                              pending_stop_tasks |-> stops]
                        ELSE NoObj]
          /\ procs = [o \in ObjIds |->
                         IF o = 1
                         THEN [start |-> Len(starts), stop |-> Len(stops)]
                         ELSE NoProcs]
          /\ invocations =
                [i \in InvIds |->
                    IF i = 1 /\ starts # <<>>
                    THEN [verb |-> "start", name |-> "work", obj |-> 1,
                          st |-> "waiting"]
                    ELSE IF i = 2 /\ stops # <<>>
                    THEN [verb |-> "stop", name |-> "work", obj |-> 1,
                          st |-> "waiting"]
                    ELSE NoInvocation]
    /\ container_ps_subprocess = FALSE
    /\ ps_procs = 0
    /\ trigger = "unobserved"
    /\ envroot = [n \in Containers \cup {DefaultLink} |->
                     IF n = "work" THEN File("directory", "") ELSE NoFile]
    /\ orphans = {}
    /\ stderr = {}
    /\ runtime_list = NoList
    /\ refreshed = "no"
    /\ refresh_io = [io |-> FsOk, ideal |-> envroot]
    /\ daemon = Running

\* toolbox_container_update on the entry of info.name.
UpdateEntry(info, io) ==
    /\ toolboxes[info.name] # 0
    /\ LET r == toolbox_container_update(objs[toolboxes[info.name]], info, io)
       IN  /\ objs' = [objs EXCEPT ![toolboxes[info.name]] = r.toolbox]
           /\ stderr' = r.out
    /\ runtime_list' = [valid |-> TRUE, list |-> (info.name :> info)]
    /\ refreshed' = "yes"
    /\ UNCHANGED <<toolboxes, procs, invocations, container_ps_subprocess,
                   ps_procs, trigger, envroot, orphans, refresh_io, daemon>>
    /\ UNCHANGED envVars

NextUpdate ==
    \E id \in Ids, pid \in UpdatePids, io \in IOOutcomes :
        UpdateEntry([name |-> "work", id |-> id, pid |-> pid], io)

SpecUpdate == InitUpdate /\ [][NextUpdate]_vars

(***************************************************************************)
(* Properties of the request handlers (Spec, SpecIO).                      *)
(***************************************************************************)
TrampolineAttr ==
    [st_ino |-> FileIno(toolbox_run_path),
     st_mode |-> MaskWrite(FileMode(toolbox_run_path))]

OwnAttr(path) == [st_ino |-> FileIno(path), st_mode |-> MaskWrite(FileMode(path))]

\* The last reply carries attributes of a non-root inode: a lookup under a
\* view root or below, or a getattr of a non-root inode.
RepliedOther ==
    /\ reply.op \in {"lookup", "getattr"}
    /\ reply.err = ""
    /\ reply.ino # FUSE_ROOT_ID

\* The view and the container path the last reply is about.
RepliedRaw == get_inode(reply.ino).is_raw

RepliedPath ==
    IF reply.op = "lookup"
    THEN ComposePath(get_inode(reply.ino), reply.name)
    ELSE get_inode(reply.ino).path

AnyExecBit(m) == And3(m, S_IXUSR, S_IXGRP, S_IXOTH) # 0

\* C4, as claimed: the attributes of a non-root lookup or getattr are the
\* trampoline's exactly when the inode is in the exe view and the file is a
\* regular file with any of the bits 0100, 0010, 0001; otherwise they are
\* the container file's own.
C4_AnyExecBitRewritten ==
    RepliedOther =>
        LET exe == ~RepliedRaw /\ S_ISREG(FileMode(RepliedPath))
                       /\ AnyExecBit(FileMode(RepliedPath))
        IN  /\ (reply.attr = TrampolineAttr) <=> exe
            /\ ~exe => reply.attr = OwnAttr(RepliedPath)

\* What envfs_lookup_other and envfs_inode_stat do instead: the attributes
\* are the trampoline's exactly when the inode is in the exe view and the
\* file is a regular file with the owner-executable bit 0100; otherwise
\* (raw view, non-regular file, bit 0100 clear) they are the file's own.
C4_OwnerExecRewritten ==
    RepliedOther =>
        LET exe == ~RepliedRaw /\ S_ISREG(FileMode(RepliedPath))
                       /\ Bit(FileMode(RepliedPath), S_IXUSR) = 1
        IN  /\ (reply.attr = TrampolineAttr) <=> exe
            /\ reply.rewritten <=> exe
            /\ ~exe => reply.attr = OwnAttr(RepliedPath)

\* The rewrite happens: a lookup in the exe view replied the trampoline's
\* attributes for bin/ls.
C4_Witness ==
    /\ RepliedOther
    /\ reply.op = "lookup"
    /\ ~RepliedRaw
    /\ RepliedPath = <<"bin", "ls">>
    /\ reply.attr = TrampolineAttr

\* C5, as claimed: every st_mode replied by lookup or getattr, the root
\* inode's included, has the write bits 0222 clear.
C5_NoWriteBits ==
    (reply.op \in {"lookup", "getattr"} /\ reply.err = "")
        => And3(reply.attr.st_mode, S_IWUSR, S_IWGRP, S_IWOTH) = 0

\* Two entries the kernel holds for different executables of the exe view.
ExeEntry(d) ==
    /\ ~get_inode(d.parent).is_raw
    /\ d.parent # FUSE_ROOT_ID
    /\ S_ISREG(FileMode(ComposePath(get_inode(d.parent), d.name)))
    /\ IsExecutable(FileMode(ComposePath(get_inode(d.parent), d.name)))

ExePairs ==
    {pr \in dcache \X dcache :
        /\ ExeEntry(pr[1]) /\ ExeEntry(pr[2])
        /\ ComposePath(get_inode(pr[1].parent), pr[1].name)
             # ComposePath(get_inode(pr[2].parent), pr[2].name)}

WriteFlags(flags) == Bit(flags, O_WRONLY) = 1 \/ Bit(flags, O_RDWR) = 1

\* C7: an open with O_WRONLY or O_RDWR in its flags is answered EACCES on
\* every inode and opens no file descriptor.
C7_WriteOpenDenied ==
    [][(reply'.op = "open" /\ WriteFlags(reply'.flags))
          => (reply'.err = "EACCES" /\ reply'.fh = 0 /\ fds' = fds)]_vars

\* C7 witness: an open for writing of an existing regular file was denied.
C7_Witness ==
    /\ reply.op = "open"
    /\ WriteFlags(reply.flags)
    /\ reply.ino # FUSE_ROOT_ID
    /\ S_ISREG(FileMode(get_inode(reply.ino).path))
    /\ reply.err = "EACCES"

\* C8, as claimed: every open of the root inode is answered EISDIR.
C8_RootOpenIsDir ==
    (reply.op = "open" /\ reply.ino = FUSE_ROOT_ID) => reply.err = "EISDIR"

\* C8, amended: an open of the root inode without write intent is answered
\* EISDIR; with O_WRONLY or O_RDWR it is answered EACCES.
C8_RootOpenIsDirUnlessWrite ==
    (reply.op = "open" /\ reply.ino = FUSE_ROOT_ID) =>
        /\ reply.fh = 0
        /\ reply.err = IF WriteFlags(reply.flags) THEN "EACCES" ELSE "EISDIR"

\* C8 witness: a read-only open of the root inode was answered EISDIR.
C8_Witness ==
    /\ reply.op = "open"
    /\ reply.ino = FUSE_ROOT_ID
    /\ ~WriteFlags(reply.flags)
    /\ reply.err = "EISDIR"


(***************************************************************************)
(* Properties of the inode table under concurrency (SpecMT).               *)
(***************************************************************************)
\* C1, as claimed: no inode that an intern returned, and that the kernel
\* holds with a positive lookup count or is about to be told of, is freed.
C1_NoFreeWhileHeld ==
    /\ \A a \in Addrs : nlookup[a] > 0 => heap[a].alloc
    /\ \A t \in Threads : thr[t].pc = "reply" => heap[thr[t].ino].alloc

\* C2, as claimed: the inode table never holds two inodes with byte-equal
\* path and equal raw flag.  Two nodes that hold the same inode hold equal
\* ones; what a freed inode holds is left out of the comparison.
C2_OnePerClass ==
    \A e1, e2 \in inodes :
        e1 # e2 =>
            /\ e1.ptr # e2.ptr
            /\ (heap[e1.ptr].alloc /\ heap[e2.ptr].alloc)
                   => ~envfs_inode_equal(heap[e1.ptr], heap[e2.ptr])

Refcounts == [a \in Addrs |-> heap[a].refcount]

\* C3, as claimed: once every request has completed, the refcounts of the
\* inodes in the table add up to the lookups replied minus the counts
\* forgotten, which is the sum of the counts the kernel holds.
C3_RefcountsMatchKernel ==
    (~crashed /\ \A t \in Threads : thr[t].pc = "idle")
        => SumOver(TablePtrs(inodes), Refcounts) = HeldLookups


(***************************************************************************)
(* Properties of the supervisor (SpecSup).                                 *)
(***************************************************************************)
\* Invocation i arrives in this step and names a container of the table.
Arrives(i) ==
    /\ i \notin Unanswered
    /\ invocations'[i].st \in {"waiting", "returned_ok", "returned_err"}

\* The subprocesses of the invocation's verb outstanding for its entry.
OutstandingFor(inv) ==
    IF inv.verb = "start" THEN procs[inv.obj].start ELSE procs[inv.obj].stop

PendingTasks(ob, inv) ==
    IF inv.verb = "start"
    THEN ob[inv.obj].pending_start_tasks
    ELSE ob[inv.obj].pending_stop_tasks

\* The invocation's task was put on the pending list of its entry and verb.
Enqueued(i) ==
    /\ invocations'[i].st = "waiting"
    /\ PendingTasks(objs', invocations'[i]) = <<i>> \o PendingTasks(objs, invocations'[i])

AtMostOnePerEntry == \A o \in ObjIds : procs[o].start <= 1 /\ procs[o].stop <= 1

\* The state of the entry's pid in which the verb has nothing to do.
NothingToDo(inv) ==
    IF inv.verb = "start" THEN objs[inv.obj].pid # 0 ELSE objs[inv.obj].pid = 0

InFlight(name, verb) ==
    LET n == [o \in ObjIds |->
                 IF objs[o].name # name THEN 0
                 ELSE IF verb = "start" THEN procs[o].start ELSE procs[o].stop]
    IN  SumOver(ObjIds, n)

\* C10, as claimed: at most one podman start and at most one podman stop is
\* in flight per container name, whatever entries are removed and created
\* for the name meanwhile.
C10_OneInFlightPerName ==
    \A name \in Containers : InFlight(name, "start") <= 1 /\ InFlight(name, "stop") <= 1


Verbs == {"start", "stop"}

ProcCount(pr, o, verb) == IF verb = "start" THEN pr[o].start ELSE pr[o].stop

PendingList(ob, o, verb) ==
    IF verb = "start" THEN ob[o].pending_start_tasks ELSE ob[o].pending_stop_tasks

\* The waiters queued on the subprocess of object o for the verb.
Queued(o, verb) ==
    {PendingList(objs, o, verb)[k] : k \in 1 .. Len(PendingList(objs, o, verb))}

\* The subprocess of object o for the verb exits in this step.
Exits(o, verb) == ProcCount(procs', o, verb) < ProcCount(procs, o, verb)

Answered(i) == invocations'[i].st \in {"ok", "err"}

\* C11: when the podman start (stop) of an entry exits, the waiters queued on
\* it, each queued once and still waiting, are all answered in that step and
\* with the same outcome, nobody else is, the entry's pending list of the
\* verb is empty and no subprocess of the verb is left, so that a later
\* request spawns anew; and a waiter is answered in no other way.
C11_WaitersCompletedTogether ==
    [][/\ \A o \in ObjIds, verb \in Verbs :
            Exits(o, verb) =>
                /\ Cardinality(Queued(o, verb)) = Len(PendingList(objs, o, verb))
                /\ \A i \in Queued(o, verb) : invocations[i].st = "waiting"
                /\ \/ \A i \in Queued(o, verb) : invocations'[i].st = "ok"
                   \/ \A i \in Queued(o, verb) : invocations'[i].st = "err"
                /\ \A i \in InvIds \ Queued(o, verb) : ~Answered(i)
                /\ PendingList(objs', o, verb) = <<>>
                /\ ProcCount(procs', o, verb) = 0
       /\ \A i \in InvIds :
            invocations[i].st = "waiting" =>
                \/ invocations'[i] = invocations[i]
                \/ /\ Exits(invocations[i].obj, invocations[i].verb)
                   /\ i \in Queued(invocations[i].obj, invocations[i].verb)]_vars

\* C11 witness: two waiters were answered by one exit of a subprocess.
C11_Witness ==
    \E i, j \in InvIds :
        i # j /\ invocations[i].st = "ok" /\ invocations[j].st = "ok"

\* C12: a start that arrives for an entry whose pid is not 0, and a stop
\* that arrives for an entry whose pid is 0, returns success inside the call
\* and leaves the subprocesses and the objects, pending lists included, as
\* they were.
C12_NothingToDoSucceeds ==
    [][\A i \in InvIds :
          (Arrives(i) /\ NothingToDo(invocations'[i]))
              => /\ invocations'[i].st = "returned_ok"
                 /\ procs' = procs
                 /\ objs' = objs]_vars

\* C12 witness: a stop for an entry that is not running has returned
\* success while a start waits on the same entry.
C12_Witness ==
    \E i \in InvIds :
        /\ invocations[i].st = "returned_ok"
        /\ invocations[i].verb = "stop"
        /\ objs[invocations[i].obj].pid = 0
        /\ objs[invocations[i].obj].pending_start_tasks # <<>>

\* C13, as claimed: for every object, pid # 0 implies that no start task is
\* pending and pid = 0 implies that no stop task is pending.
C13_PendingMatchesPid ==
    \A o \in ObjIds :
        /\ objs[o].pid # 0 => objs[o].pending_start_tasks = <<>>
        /\ objs[o].pid = 0 => objs[o].pending_stop_tasks = <<>>


(***************************************************************************)
(* Properties of the reconciliation passes (SpecPass).                     *)
(***************************************************************************)
\* The names the step's run of refresh_containers found in the table and
\* in its list: the entries it handed to toolbox_container_update.
UpdatedNames ==
    IF refreshed' = "no" THEN {}
    ELSE {n \in DOMAIN toolboxes : toolboxes[n] # 0 /\ n \in DOMAIN runtime_list'.list}

\* The object has an ENVFS child exactly if its pid is not 0.
LiveIffRunning(toolbox) == (toolbox.fuse_subprocess # 0) <=> (toolbox.pid # 0)

FailureLogged(out, n) ==
    Msg("Failed to unmount", n) \in out \/ Msg("Failed to mount", n) \in out

C15_OldChildGone ==
    [][\A n \in UpdatedNames :
          LET old == objs[toolboxes[n]]
              new == objs'[toolboxes[n]]
          IN  (old.pid # 0 /\ new.pid # 0 /\ old.pid # new.pid
                  /\ old.fuse_subprocess = old.pid)
                 => /\ new.fuse_subprocess \in {0, new.pid}
                    /\ Msg("Mounted", n) \in stderr' => Msg("Unmounted", n) \in stderr']_vars

\* C16, as claimed: after a pass no ENVFS child of an entry that the passes
\* removed is still running.
C16_RemovedAreUnmounted == refreshed # "no" => orphans = {}

\* The names of the list that begin with fedora-toolbox.
ToolboxNames(list) == {n \in DOMAIN list : g_str_has_prefix(n, "fedora-toolbox")}

\* The greatest of a non-empty set of names.
Greatest(S) == CHOOSE n \in S : \A m \in S : strcmp(n, m) >= 0

\* C17, as claimed: after a pass every child of the environment root is a
\* directory named in the list of the pass, or the link _default to the
\* greatest name of the list that begins with fedora-toolbox; and _default
\* is absent if no name of the list begins so.
C17_EnvrootMatchesList ==
    refreshed # "no" =>
        \A n \in DOMAIN envroot :
            \/ envroot[n] = NoFile
            \/ n \in DOMAIN runtime_list.list /\ envroot[n] = File("directory", "")
            \/ /\ n = DefaultLink
               /\ ToolboxNames(runtime_list.list) # {}
               /\ envroot[n] = File("symlink", Greatest(ToolboxNames(runtime_list.list)))

MountLines == {"Mounted", "Unmounted", "Failed to mount", "Failed to unmount"}

\* C18: a pass on the list of the pass before changes nothing in the
\* environment root, starts and unmounts no ENVFS child and does not try to.
C18_SecondPassChangesNothing ==
    [][refreshed' = "again" =>
          /\ envroot' = envroot
          /\ BusyDirs(toolboxes', objs', orphans') = BusyDirs(toolboxes, objs, orphans)
          /\ \A m \in stderr' : m.msg \notin MountLines]_vars

\* C18 witness: a pass ran on the list of the pass before, with a directory
\* of a running container, its ENVFS child and the default link in place.
C18_Witness ==
    /\ refreshed = "again"
    /\ envroot[DefaultLink].type = "symlink"
    /\ \E n \in DOMAIN runtime_list.list :
          /\ envroot[n] = File("directory", "")
          /\ toolboxes[n] # 0
          /\ objs[toolboxes[n]].fuse_subprocess # 0

\* C19: the default a pass selects, which it leaves as the target of
\* _default, is the greatest of the names of its list that begin with
\* fedora-toolbox, whatever the order of the iteration, and there is no
\* default when no name begins so.
C19_DefaultIsGreatest ==
    refreshed # "no" =>
        IF ToolboxNames(runtime_list.list) = {}
        THEN envroot[DefaultLink].type # "symlink"
        ELSE /\ envroot[DefaultLink].type = "symlink"
             /\ \A m \in ToolboxNames(runtime_list.list) :
                   strcmp(envroot[DefaultLink].target, m) >= 0
             /\ envroot[DefaultLink].target \in ToolboxNames(runtime_list.list)

\* C19 witness: a pass on a list with both fedora-toolbox names made the
\* greater one the default.
C19_Witness ==
    /\ refreshed # "no"
    /\ DOMAIN runtime_list.list = {"fedora-toolbox-a", "fedora-toolbox-b"}
    /\ envroot[DefaultLink] = File("symlink", "fedora-toolbox-b")

\* C20, as claimed: after a pass the table has an entry for each name of the
\* list and for no other name, and an entry whose name was in the table and
\* is in the list is the object it was.
C20_TableMatchesList ==
    [][refreshed' # "no" =>
          /\ \A n \in DOMAIN toolboxes' :
                toolboxes'[n] # 0 <=> n \in DOMAIN runtime_list'.list
          /\ \A n \in UpdatedNames : toolboxes'[n] = toolboxes[n]]_vars

(***************************************************************************)
(* Properties of the listing, of unknown names and of failures in the      *)
(* environment root (SpecSup, SpecRetry).                                   *)
(***************************************************************************)
\* C21: at most one podman ps is outstanding, and impl->container_ps_subprocess
\* is set exactly while it is; a callback that calls check_running while
\* one is outstanding starts no other, and the callback that handles the
\* exit of podman ps clears the marker and starts none.
C21_OneListingInFlight ==
    [][/\ ps_procs' <= 1
       /\ container_ps_subprocess' <=> (ps_procs' = 1)
       /\ ps_procs' < ps_procs => (ps_procs' = 0 /\ ~container_ps_subprocess')]_vars

\* C21 witness: a podman ps is outstanding after a callback that answered a
\* request with success, hence called check_running.
C21_Witness ==
    /\ ps_procs = 1
    /\ container_ps_subprocess
    /\ \E i \in InvIds : invocations[i].st = "ok"

\* C22: a Start or Stop that arrives for a name without an entry in the
\* table is answered "invalid argument" inside the call, and the table, the
\* objects, the podman start/stop subprocesses and the listing are as they
\* were.
C22_UnknownNameInvalid ==
    [][\A i \in InvIds :
          (/\ i \notin Unanswered
           /\ invocations'[i].verb # ""
           /\ toolboxes[invocations'[i].name] = 0)
              => /\ invocations'[i].st = "invalid"
                 /\ toolboxes' = toolboxes
                 /\ objs' = objs
                 /\ procs' = procs
                 /\ ps_procs' = ps_procs]_vars

\* C22 witness: a Stop for an unknown name was answered "invalid argument"
\* while the table holds a running entry of another name.
C22_Witness ==
    \E i \in InvIds :
        /\ invocations[i].st = "invalid"
        /\ invocations[i].verb = "stop"
        /\ toolboxes[invocations[i].name] = 0
        /\ \E n \in DOMAIN toolboxes : toolboxes[n] # 0 /\ objs[toolboxes[n]].pid # 0

\* C23, as claimed: a run of refresh_containers that cannot enumerate the
\* environment root ends there: the table and the objects are as before, no
\* mount or unmount is tried, and the environment root is as before.
C23_NoEnumerationNoPass ==
    [][(refreshed' # "no" /\ ~refresh_io'.io.enumerated)
          => /\ toolboxes' = toolboxes
             /\ objs' = objs
             /\ envroot' = envroot
             /\ \A m \in stderr' : m.msg \notin MountLines]_vars

\* The names the failed operations of a run were about.
FailedNames(io) == {f[2] : f \in io.failing}

\* C24: when an operation on a directory or on the default link fails in a
\* run of refresh_containers, every other child of the environment root is
\* left as a run without the failure would have left it; and the next run,
\* on the same list and without a failure, leaves the environment root as
\* the first run would have left it without the failure.
C24_FailureIsRetried ==
    [][/\ (refreshed' # "no" /\ refresh_io'.io.enumerated)
             => \A n \in DOMAIN envroot' \ FailedNames(refresh_io'.io) :
                    envroot'[n] = refresh_io'.ideal[n]
       /\ (/\ refreshed' = "again"
           /\ refresh_io.io.enumerated /\ refresh_io.io.failing # {}
           /\ refresh_io'.io = FsOk)
             => envroot' = refresh_io.ideal]_vars

\* C24 witness: a run in which an operation failed has left the name of
\* that operation other than it should be and has made the directory of
\* another name of its list, whose ENVFS child runs.
C24_Witness ==
    /\ refreshed # "no"
    /\ refresh_io.io.enumerated
    /\ \E f \in refresh_io.io.failing : envroot[f[2]] # refresh_io.ideal[f[2]]
    /\ \E n \in DOMAIN runtime_list.list \ FailedNames(refresh_io.io) :
          /\ envroot[n] = File("directory", "")
          /\ toolboxes[n] # 0
          /\ objs[toolboxes[n]].fuse_subprocess # 0

(***************************************************************************)
(* Properties of the helper's main() (SpecMain).                           *)
(***************************************************************************)
\* C25: source_fd is opened while the process is in the host's user
\* namespace, hence before it enters the container's; the dispatch loop
\* runs, and a request is answered, only after source_fd was opened, the
\* mount and the session were made and the namespace was entered; and when
\* entering the namespace fails, main exits with the loop never run and the
\* mount undone.
C25_SetupBeforeLoop ==
    /\ helper.source_fd # -1 => helper.source_ns = "host"
    /\ helper.ns = "container" => helper.source_fd # -1
    /\ helper.looped => (helper.source_fd # -1 /\ helper.ns = "container")
    /\ helper.pc = "loop" => (helper.mounted /\ helper.session)
    /\ reply # NoReply => helper.looped
    /\ (helper.pc = "exited" /\ helper.failed = "setns")
          => (~helper.looped /\ ~helper.mounted)

\* C25 witness: main has exited after a loop in which a lookup was answered
\* with an entry.
C25_Witness ==
    /\ helper.pc = "exited"
    /\ helper.looped
    /\ reply.op = "lookup"
    /\ reply.err = ""

\* C26, as claimed: main exits with status 1 when a step of the set-up
\* failed, and with status 0 only after the loop has run and the mount is
\* undone.
C26_ExitStatus ==
    helper.pc = "exited"
        => /\ helper.failed # "" => helper.status = 1
           /\ helper.status = 0 => (helper.looped /\ ~helper.mounted)

\* C27: a listing is only issued, a list only processed and an ENVFS child
\* only there after toolbox_cleanup_old_mounts has run, which it does once
\* and without unmounting a mount of this instance; and when the
\* environment root could not be created there is neither a sweep nor a
\* listing.
C27_SweepBeforeListing ==
    /\ (\/ ps_procs > 0
        \/ container_ps_subprocess
        \/ runtime_list.valid
        \/ orphans # {}
        \/ \E o \in DOMAIN objs : objs[o] # NoObj)
          => daemon.phase \in {"running", "stopped"} /\ daemon.sweeps = 1
    /\ daemon.sweeps <= 1
    /\ daemon.swept_own = {}
    /\ daemon.phase = "failed"
          => /\ daemon.sweeps = 0
             /\ ps_procs = 0
             /\ ~container_ps_subprocess
             /\ ~runtime_list.valid

\* The sweep unmounted the mount of the earlier instance, and this
\* instance has mounted a container on the same directory since.
C27_Witness ==
    /\ daemon.phase = "running"
    /\ daemon.sweeps = 1
    /\ daemon.swept = {"work"}
    /\ toolboxes["work"] # 0
    /\ objs[toolboxes["work"]].fuse_subprocess # 0

\* C28: after a shutdown in which no unmount failed, no entry of the table
\* has an ENVFS child.
C28_NoChildAfterShutdown ==
    (/\ daemon.phase = "stopped"
     /\ \A n \in DOMAIN toolboxes : Msg("Failed to unmount", n) \notin stderr)
        => \A n \in DOMAIN toolboxes :
              toolboxes[n] # 0 => objs[toolboxes[n]].fuse_subprocess = 0

\* C29: a forget or forget_multi request takes from each non-root inode
\* the count the kernel gave up for it: an inode whose refcount was that
\* count is removed from the table and freed, any other one named stays in
\* the table with its refcount reduced by it, and an inode not named, or
\* named with the root only, is left as it was.
C29_ForgetEffect ==
    [][reply'.op \in {"forget", "forget_multi"}
          => /\ \A a \in Addrs :
                   LET d == nlookup[a] - nlookup'[a]
                   IN  IF d = 0
                       THEN /\ heap'[a] = heap[a]
                            /\ a \in TablePtrs(inodes') <=> a \in TablePtrs(inodes)
                       ELSE IF heap[a].refcount = d
                       THEN /\ a \notin TablePtrs(inodes')
                            /\ ~heap'[a].alloc
                       ELSE /\ heap'[a] = [heap[a] EXCEPT !.refcount = @ - d]
                            /\ heap'[a].refcount > 0
                            /\ a \in TablePtrs(inodes')
             /\ TablePtrs(inodes') \subseteq TablePtrs(inodes)
             /\ (reply'.op = "forget" /\ reply'.ino = FUSE_ROOT_ID)
                   => heap' = heap /\ inodes' = inodes /\ nlookup' = nlookup]_vars

\* A forget has removed the inode it named while another inode stays in
\* the table.
C29_Witness ==
    /\ reply.op = "forget"
    /\ reply.ino \in Addrs
    /\ ~heap[reply.ino].alloc
    /\ reply.ino \notin TablePtrs(inodes)
    /\ inodes # {}

\* C30: a lookup of a name other than exe and raw under the root, or of a
\* path that is not there under another inode, replies with an error, and
\* a lookup that replies with an error leaves the heap, the inode table
\* and the kernel's lookup counts as they were.
C30_FailedLookupInternsNothing ==
    [][reply'.op = "lookup"
          => /\ (reply'.ino = FUSE_ROOT_ID /\ reply'.name \notin {"exe", "raw"})
                   => reply'.err = "ENOENT"
             /\ (/\ reply'.ino # FUSE_ROOT_ID
                 /\ FileMode(IF heap[reply'.ino].path # NULL
                             THEN Append(heap[reply'.ino].path, reply'.name)
                             ELSE <<reply'.name>>) = -1)
                   => reply'.err # ""
             /\ reply'.err # ""
                   => heap' = heap /\ inodes' = inodes /\ nlookup' = nlookup]_vars

\* A lookup under a view root has replied with an error while the table
\* holds inodes.
C30_Witness ==
    /\ reply.op = "lookup"
    /\ reply.err # ""
    /\ reply.ino \in Addrs
    /\ reply.ino \in TablePtrs(inodes)
    /\ heap[reply.ino].refcount > 0

\* C31: an invocation is only answered while it is unanswered, and every
\* unanswered invocation (its task in a pending list, or returned with the
\* callback still to run) is eventually answered with success or an error,
\* whatever the passes do to the table in between.
C31_EveryRequestAnswered ==
    /\ [][\A i \in InvIds :
             (invocations'[i].st \in {"ok", "err"} /\ invocations'[i] # invocations[i])
                => invocations[i].st \in {"waiting", "returned_ok", "returned_err"}]_vars
    /\ \A i \in InvIds :
          (invocations[i].st \in {"waiting", "returned_ok", "returned_err"})
             ~> (invocations[i].st \in {"ok", "err"})

\* Two invocations on one subprocess have been answered together after a
\* pass had removed the entry from the table.
C31_Witness ==
    /\ \A i \in InvIds : invocations[i].st = "ok"
    /\ runtime_list.valid
    /\ \A n \in DOMAIN toolboxes : toolboxes[n] = 0

\* C32: toolbox_container_update with the pid the entry has prints nothing
\* about a mount or an unmount and leaves the entry as it was but for the
\* id, which becomes the id passed, with a line printed exactly when that
\* is another id.
C32_SamePidOnlyId ==
    [][\A n \in DOMAIN runtime_list'.list :
          LET info == runtime_list'.list[n]
              old == objs[toolboxes[n]]
              new == objs'[toolboxes[n]]
          IN  info.pid = old.pid
                 => /\ new = [old EXCEPT !.id = info.id]
                    /\ stderr' \subseteq {Msg("Update ID", n)}
                    /\ Msg("Update ID", n) \in stderr' <=> info.id # old.id]_vars

\* An update with the entry's pid has replaced the id of an entry that has
\* an ENVFS child and waiters of a start, and has printed nothing else.
C32_Witness ==
    /\ refreshed = "yes"
    /\ stderr = {Msg("Update ID", "work")}
    /\ objs[1].id = runtime_list.list["work"].id
    /\ objs[1].pid = 7
    /\ runtime_list.list["work"].pid = 7
    /\ objs[1].fuse_subprocess = 7
    /\ objs[1].pending_start_tasks # <<>>

\* C33: getxattr, listxattr and access leave the set of open descriptors
\* as it was once they have replied.
C33_FdsUnchanged ==
    [][reply'.op \in {"getxattr", "listxattr", "access"} => fds' = fds]_vars

\* C34: every request other than forget and forget_multi has received
\* exactly one reply when its handler returns.
C34_OneReply ==
    reply.op \notin {"none", "forget", "forget_multi"} => reply.sent = 1

\* C37: on a non-root directory handle, readdir calls that each resume at
\* the offset of the last entry received return the entries of the
\* directory in order, none skipped and none twice, and all of them by the
\* time a reply is empty, whatever the buffer sizes and the entries that
\* were read from the stream without fitting in a reply.
C37_EnumeratesOnce ==
    \A h \in DirIds :
       dirh[h].type = "OTHER"
          => LET entries == DirEntries(dirh[h].path)
                 seen == dirh[h].seen
             IN  /\ Len(seen) <= Len(entries)
                 /\ seen = SubSeq(entries, 1, Len(seen))
                 /\ dirh[h].eof => seen = entries

\* A request for one entry has returned the last entry of bin, which the
\* call before had read from the stream without room for it in its reply.
C37_Witness ==
    \E h \in DirIds :
       /\ dirh[h].type = "OTHER"
       /\ dirh[h].path = <<"bin">>
       /\ dirh[h].seen = DirEntries(<<"bin">>)
       /\ ~dirh[h].eof
       /\ reply.op = "readdir"
       /\ reply.err = ""
       /\ reply.flags = fuse_add_direntry("gx")

\* C35: when a pass spawns the ENVFS child of an entry, the directory
\* ENVROOT/<name> the child is to mount on exists.
C35_MountPointExists ==
    [][\A n \in DOMAIN toolboxes :
          (ps_procs' < ps_procs /\ Msg("Mounted", n) \in stderr')
             => MountPoints(envroot, refresh_io'.io)[n].type = "directory"]_vars

\* C36: main leaves the main loop and runs toolbox_manager_impl_stop only
\* once on_bus_acquired has made the manager.
C36_StopOnlyAfterCreated ==
    [][(daemon'.phase \in {"stopped", "crashed"} /\ daemon'.phase # daemon.phase)
          => daemon.phase \in Exported]_vars

C39_TriggerIsServed == (trigger = "dropped") ~> (trigger = "served")

=============================================================================
